---------------------------- MODULE Spec2Model ----------------------------
(***************************************************************************)
(* Yield rotator: yield catalog (services/defillama.js), holding matcher   *)
(* (services/balances.js), rotation planner (services/rotator.js) and swap *)
(* dispatcher (services/swapper.js, index.js).                             *)
(*                                                                         *)
(* Representation.                                                         *)
(*  - A JavaScript object is a record; a property the object does not have *)
(*    is a field the record does not have (Has).                           *)
(*  - A symbol or an address is the sequence of its characters, so that    *)
(*    toUpperCase, toLowerCase, includes, startsWith and the yield-bearing *)
(*    pattern are computed on the text.  The empty sequence is the empty   *)
(*    string; a null address is written NoAddress.  Addresses are cut to   *)
(*    "0x" and their first hexadecimal digits.                             *)
(*  - apy values are in hundredths of a percent (550 is 5.5 %), USD        *)
(*    amounts and token balances in cents (1000 is 10.00), so that the     *)
(*    thresholds 0.5 %, 0.1 % and $10 are integers; every modelled balance *)
(*    is a whole number of dollars, which keeps the division by 100 of the *)
(*    annual gain exact.  The gain is in cents times hundredths.           *)
(***************************************************************************)
EXTENDS Integers, Sequences, FiniteSets, TLC

VARIABLES
    stage,        \* position of the run / of the call under check
    pools,        \* the pool list handed to the catalog functions (raw feed or catalog)
    minTvl,       \* filterBaseStablecoins argument
    maxApy,       \* filterBaseStablecoins argument
    minApyImprovement,  \* config.minApyImprovement
    filtered,     \* result of filterBaseStablecoins
    top,          \* result of getTopYieldingStable (Null or a record)
    members,      \* result of getEnrichedMemberData
    rotations,    \* result of calculateRotations
    srArgs,       \* arguments of the shouldRotate call under check
    srResult,     \* its result
    stats,        \* runRotation's stats
    dryRun,       \* config.dryRun
    prioritized,  \* runRotation's prioritizedRotations
    validRotations,  \* runRotation's validRotations, the argument of executeRotations
    cursor,       \* index in validRotations of the rotation executeRotations is at
    swapPc,       \* position of the executeSwap call in progress
    apiCalls,     \* the calls made to the wallet API so far, in order
    results,      \* executeRotations' results
    fetch,        \* fetchYieldPools: the attempt it is at, its requests and waits, its outcome
    validation,   \* the validateSwap call under check: its rotation, then its result
    summary,      \* runRotation's summary, the result of getRotationSummary
    logged,       \* the stats handed to logger.summary so far, in order
    exitCode,     \* the code the process exited with, NotExited before
    ranking,      \* the getTopYieldingStables call under check: its count, then its result
    enrichment,   \* the getCurrentHoldingApy call under check: its holdings, then its result
    swapValidationCache,  \* swapper.js' cache of isTokenSwappable answers, by lower-case address
    swappableCalls        \* the isTokenSwappable calls so far: address, request made, answer

\* what the dispatcher writes
dispatchVars == <<dryRun, prioritized, validRotations, cursor, swapPc, apiCalls, results>>

\* isTokenSwappable's cache and the record of its calls
cacheVars == <<swapValidationCache, swappableCalls>>

\* the calls checked on their own: fetchYieldPools, validateSwap,
\* getTopYieldingStables, getCurrentHoldingApy, isTokenSwappable
callVars == <<fetch, validation, ranking, enrichment, cacheVars>>

\* what a run reports: the rotation summary, the run summary, the exit code
reportVars == <<summary, logged, exitCode>>

vars == <<stage, pools, minTvl, maxApy, minApyImprovement,
          filtered, top, members, rotations, srArgs, srResult,
          stats, dispatchVars, callVars, reportVars>>

(***************************************************************************)
(* Bounds of the model.                                                    *)
(***************************************************************************)
MaxPools == 2       \* longest pool list
MaxHoldings == 2    \* most holdings over all members of the swarm

(***************************************************************************)
(* Configuration (config.js) and constants of defillama.js.                *)
(***************************************************************************)
MinApyImprovement == 50     \* config.minApyImprovement, 0.5 %
MinBalanceUsd == 1000       \* config.minBalanceUsd, $10
MAX_STABLE_APY == 2500      \* 25 %
DefaultMinTvl == 10000000   \* $100,000
ConfigChain == "Base"

(***************************************************************************)
(* JavaScript values.                                                      *)
(***************************************************************************)
Null == [null |-> TRUE]     \* null where an object is expected
NullStr == "null"           \* null where a string is expected
NoAddress == << >>          \* null / absent address

Has(obj, f) == f \in DOMAIN obj

\* obj.f || 0 for a numeric property
NumOr0(obj, f) == IF Has(obj, f) THEN obj[f] ELSE 0

\* obj.f?.text || '' for a text property
TextOrEmpty(obj, f) == IF Has(obj, f) THEN obj[f] ELSE << >>

\* obj.f for a string property (a project name)
StrOrUndefined(obj, f) == IF Has(obj, f) THEN obj[f] ELSE "undefined"

\* { ...a, ...b }
Spread(a, b) == b @@ a

\* the object made of the properties of obj named in fields
Pick(obj, fields) == [f \in DOMAIN obj \cap fields |-> obj[f]] @@ << >>

LowerLetters ==
    <<"a","b","c","d","e","f","g","h","i","j","k","l","m",
      "n","o","p","q","r","s","t","u","v","w","x","y","z">>
UpperLetters ==
    <<"A","B","C","D","E","F","G","H","I","J","K","L","M",
      "N","O","P","Q","R","S","T","U","V","W","X","Y","Z">>

\* the place of a letter, of either case, in the alphabet
LetterIndex ==
    [c \in {LowerLetters[i] : i \in DOMAIN LowerLetters}
            \cup {UpperLetters[i] : i \in DOMAIN UpperLetters}
        |-> CHOOSE i \in DOMAIN LowerLetters : LowerLetters[i] = c \/ UpperLetters[i] = c]

toUpperChar(c) == IF c \in DOMAIN LetterIndex THEN UpperLetters[LetterIndex[c]] ELSE c

toLowerChar(c) == IF c \in DOMAIN LetterIndex THEN LowerLetters[LetterIndex[c]] ELSE c

toUpperCase(s) == [i \in DOMAIN s |-> toUpperChar(s[i])]

toLowerCase(s) == [i \in DOMAIN s |-> toLowerChar(s[i])]

\* s.startsWith(t)
startsWith(s, t) == Len(t) <= Len(s) /\ SubSeq(s, 1, Len(t)) = t

\* s.includes(t)
includes(s, t) ==
    \E i \in 0..(Len(s) - Len(t)) : SubSeq(s, i + 1, i + Len(t)) = t

\* the sequences over S of length at most n
RECURSIVE SeqsUpTo(_, _)
SeqsUpTo(S, n) ==
    IF n = 0 THEN {<< >>}
    ELSE LET shorter == SeqsUpTo(S, n - 1)
         IN  shorter \cup {Append(s, x) : s \in shorter, x \in S}


(***************************************************************************)
(* defillama.js: token address table and catalog functions.                *)
(***************************************************************************)
SymUSDC == <<"U","S","D","C">>
SymDAI == <<"D","A","I">>
SymUSDT == <<"U","S","D","T">>
SymUSDBC == <<"U","S","D","B","C">>
SymFRAX == <<"F","R","A","X">>
SymLUSD == <<"L","U","S","D">>
SymETH == <<"E","T","H">>
SymMUSDC == <<"m","U","S","D","C">>
SymABasUSDC == <<"a","B","a","s","U","S","D","C">>

AddrABasUSDC == <<"0","x","4","e","6","5","f","E">>   \* 0x4e65fE4D... aBasUSDC
AddrMUSDC == <<"0","x","E","d","c","8","1","7">>      \* 0xEdc817A2... mUSDC

\* tokenAddressMap: project -> <<key, address>> in the order of the object's keys
tokenAddressMap(project) ==
    CASE project = "aave-v3" -> << <<SymUSDC, AddrABasUSDC>> >>
      [] project = "moonwell-lending" ->
             << <<SymUSDC, AddrMUSDC>>,
                <<SymDAI, <<"0","x","7","3","b","0","6","D">> >> >>     \* 0x73b06D8d... mDAI
      [] project = "seamless-v2" ->
             << <<SymUSDC, <<"0","x","5","3","E","2","4","0">> >> >>    \* 0x53E240C0... sUSDC
      [] OTHER -> << >>

\* the address of the first key of the project's map that the upper-cased
\* symbol includes, or NoAddress
RECURSIVE AddressInMap(_, _)
AddressInMap(projectMap, upperSymbol) ==
    IF projectMap = << >> THEN NoAddress
    ELSE IF includes(upperSymbol, toUpperCase(Head(projectMap)[1]))
         THEN Head(projectMap)[2]
         ELSE AddressInMap(Tail(projectMap), upperSymbol)

getTokenAddress(project, symbol) ==
    AddressInMap(tokenAddressMap(project), toUpperCase(symbol))

usdSymbols ==
    << SymUSDC, SymUSDT, SymDAI, SymUSDBC, SymFRAX, SymLUSD,
       <<"G","U","S","D">>, <<"B","U","S","D">>, <<"T","U","S","D">>,
       <<"U","S","D","+">>, <<"D","O","L","A">> >>

\* faulty variant: the filter without the USD-symbol allow-list
PassesBaseStableFilter_NoSymbolCheck(pool, tvlMin, apyMax) ==
    /\ Has(pool, "chain") /\ pool.chain = ConfigChain
    /\ Has(pool, "stablecoin") /\ pool.stablecoin = TRUE
    /\ NumOr0(pool, "tvlUsd") >= tvlMin
    /\ NumOr0(pool, "apy") <= apyMax

\* the predicate of filterBaseStablecoins' filter
PassesBaseStableFilter(pool, tvlMin, apyMax) ==
    LET isBase == Has(pool, "chain") /\ pool.chain = ConfigChain
        isStablecoin == Has(pool, "stablecoin") /\ pool.stablecoin = TRUE
        hasMinTvl == NumOr0(pool, "tvlUsd") >= tvlMin
        belowMaxApy == NumOr0(pool, "apy") <= apyMax
        symbol == toUpperCase(TextOrEmpty(pool, "symbol"))
        isUsdBased == \E i \in DOMAIN usdSymbols : includes(symbol, usdSymbols[i])
    IN  isBase /\ isStablecoin /\ hasMinTvl /\ belowMaxApy /\ isUsdBased

filterBaseStablecoins(poolList, tvlMin, apyMax) ==
    SelectSeq(poolList, LAMBDA pool : PassesBaseStableFilter(pool, tvlMin, apyMax))

\* faulty variant: the comparator with a and b exchanged, an ascending sort
RECURSIVE InsertByApy_Ascending(_, _)
InsertByApy_Ascending(sorted, pool) ==
    IF sorted = << >> THEN <<pool>>
    ELSE IF NumOr0(Head(sorted), "apy") <= NumOr0(pool, "apy")
         THEN <<Head(sorted)>> \o InsertByApy_Ascending(Tail(sorted), pool)
         ELSE <<pool>> \o sorted

\* [...pools].sort((a, b) => (b.apy || 0) - (a.apy || 0)): stable, descending
RECURSIVE InsertByApy(_, _)
InsertByApy(sorted, pool) ==
    IF sorted = << >> THEN <<pool>>
    ELSE IF NumOr0(Head(sorted), "apy") >= NumOr0(pool, "apy")
         THEN <<Head(sorted)>> \o InsertByApy(Tail(sorted), pool)
         ELSE <<pool>> \o sorted

RECURSIVE SortByApyDesc(_)
SortByApyDesc(poolList) ==
    IF poolList = << >> THEN << >>
    ELSE InsertByApy(SortByApyDesc(SubSeq(poolList, 1, Len(poolList) - 1)),
                     poolList[Len(poolList)])

\* the properties getTopYieldingStable copies from the pool
TopRecord(pool, tokenAddress) ==
    Spread(Pick(pool, {"pool", "symbol", "project", "tvlUsd"}),
           [apy |-> NumOr0(pool, "apy"), tokenAddress |-> tokenAddress])

\* faulty variant: the best pool is returned with whatever address it has, without
\* walking on to a pool that resolves
getTopYieldingStable_NoWalk(poolList) ==
    IF poolList = << >> THEN Null
    ELSE LET best == SortByApyDesc(poolList)[1]
         IN  TopRecord(best, getTokenAddress(StrOrUndefined(best, "project"),
                                             TextOrEmpty(best, "symbol")))

getTopYieldingStable(poolList) ==
    IF poolList = << >> THEN Null
    ELSE LET sorted == SortByApyDesc(poolList)
             resolved == {i \in DOMAIN sorted :
                             getTokenAddress(StrOrUndefined(sorted[i], "project"),
                                             TextOrEmpty(sorted[i], "symbol")) # NoAddress}
         IN  IF resolved # {}
             THEN LET i == CHOOSE k \in resolved : \A j \in resolved : k <= j
                  IN  TopRecord(sorted[i],
                                getTokenAddress(sorted[i].project, sorted[i].symbol))
             ELSE TopRecord(sorted[1], NoAddress)

DefaultCount == 5      \* getTopYieldingStables' default for count

\* faulty variant: the sorted list is not cut at count
getTopYieldingStables_NoSlice(poolList, count) ==
    LET sorted == SortByApyDesc(poolList)
    IN  [i \in DOMAIN sorted |->
            TopRecord(sorted[i], getTokenAddress(StrOrUndefined(sorted[i], "project"),
                                                 TextOrEmpty(sorted[i], "symbol")))]

\* getTopYieldingStables(pools, count): sorted.slice(0, count).map(...)
getTopYieldingStables(poolList, count) ==
    LET sorted == SortByApyDesc(poolList)
        topPools == SubSeq(sorted, 1, IF count < Len(sorted) THEN count ELSE Len(sorted))
    IN  [i \in DOMAIN topPools |->
            TopRecord(topPools[i], getTokenAddress(StrOrUndefined(topPools[i], "project"),
                                                   TextOrEmpty(topPools[i], "symbol")))]

(***************************************************************************)
(* Feed records (the pools of defillama.test.js and variations of them).   *)
(***************************************************************************)

FeedPool(id, chain, symbol, project, apy, tvlUsd, stablecoin) ==
    [pool |-> id, chain |-> chain, symbol |-> symbol, project |-> project,
     apy |-> apy, tvlUsd |-> tvlUsd, stablecoin |-> stablecoin]

RawPools ==
    { FeedPool("pool-1", "Base", SymUSDC, "aave-v3", 550, 100000000, TRUE),
      FeedPool("pool-2", "Base", SymUSDC, "compound-v3", 420, 50000000, TRUE),
      FeedPool("pool-3", "Base", SymUSDC, "moonwell-lending", 610, 75000000, TRUE),
      FeedPool("pool-4", "Ethereum", SymUSDC, "aave-v3", 700, 200000000, TRUE),
      FeedPool("pool-5", "Base", SymETH, "aave-v3", 350, 80000000, FALSE),
      FeedPool("pool-6", "Base", <<"U","S","D","C","-","D","A","I","-","L","P">>,
               "volatile-protocol", 50000, 20000000, TRUE),
      FeedPool("pool-7", "Base", SymUSDC, "small-protocol", 800, 5000000, TRUE),
      FeedPool("pool-8", "Base", SymDAI, "moonwell-lending", 480, 30000000, TRUE),
      FeedPool("pool-9", "Base", SymUSDC, "morpho-blue", 900, 90000000, TRUE),
      FeedPool("pool-10", "Base", SymUSDC, "seamless-v2", 610, 40000000, TRUE),
      FeedPool("pool-11", "Base", <<"E","U","R","C">>, "aave-v3", 300, 60000000, TRUE),
      [pool |-> "test", chain |-> "Base", stablecoin |-> TRUE],
      [pool |-> "no-apy", chain |-> "Base", stablecoin |-> TRUE, symbol |-> SymUSDT,
       project |-> "morpho-blue", tvlUsd |-> 70000000],
      [pool |-> "no-tvl", chain |-> "Base", stablecoin |-> TRUE, symbol |-> <<"u","s","d","c">>,
       project |-> "aave-v3", apy |-> 100] }

\* runRotation's stats at its start
InitialStats == [usersChecked |-> 0, swapsExecuted |-> 0, swapsSkipped |-> 0, errors |-> 0]

\* executeRotations' results at its start
EmptyResults == [executed |-> << >>, failed |-> << >>, skipped |-> << >>]

InitDispatch ==
    /\ stats = InitialStats
    /\ prioritized = << >>
    /\ validRotations = << >>
    /\ cursor = 1
    /\ swapPc = "start"
    /\ apiCalls = << >>
    /\ results = EmptyResults

\* the process has not exited
NotExited == -1

\* fetchYieldPools at its start: attempt 1, nothing requested, nothing waited for
InitialFetch == [attempt |-> 1, requests |-> 0, waits |-> << >>, outcome |-> "pending"]

InitReport ==
    /\ summary = Null
    /\ logged = << >>
    /\ exitCode = NotExited

\* swapValidationCache = new Map(), and no call made
InitCache ==
    /\ swapValidationCache = << >>
    /\ swappableCalls = << >>

InitCalls ==
    /\ fetch = InitialFetch
    /\ validation = Null
    /\ ranking = Null
    /\ enrichment = Null
    /\ InitCache

InitRest ==
    /\ members = << >>
    /\ rotations = << >>
    /\ srArgs = << >>
    /\ srResult = FALSE
    /\ InitDispatch
    /\ InitCalls
    /\ InitReport

(***************************************************************************)
(* SpecFeed: getBaseYieldData on a fetched feed.  The feed is the input;   *)
(* filterBaseStablecoins is called with its defaults or with explicit      *)
(* thresholds, getTopYieldingStable on the filtered list.                  *)
(***************************************************************************)
InitFeed ==
    /\ stage = "fetched"
    /\ pools \in SeqsUpTo(RawPools, MaxPools)
    /\ minTvl \in {DefaultMinTvl, 0}
    /\ maxApy \in {MAX_STABLE_APY, 500}
    /\ minApyImprovement = MinApyImprovement
    /\ filtered = << >>
    /\ top = Null
    /\ dryRun = FALSE
    /\ InitRest

FilterBaseStablecoins ==
    /\ stage = "fetched"
    /\ filtered' = filterBaseStablecoins(pools, minTvl, maxApy)
    /\ stage' = "filtered"
    /\ UNCHANGED <<pools, minTvl, maxApy, minApyImprovement,
                   top, members, rotations, srArgs, srResult,
                   stats, dispatchVars,
                   callVars, reportVars>>

GetTopYieldingStable ==
    /\ stage = "filtered"
    /\ top' = getTopYieldingStable(filtered)
    /\ stage' = "top"
    /\ UNCHANGED <<pools, minTvl, maxApy, minApyImprovement,
                   filtered, members, rotations, srArgs, srResult,
                   stats, dispatchVars,
                   callVars, reportVars>>

NextFeed == FilterBaseStablecoins \/ GetTopYieldingStable

SpecFeed == InitFeed /\ [][NextFeed]_vars

(***************************************************************************)
(* C7: every record returned by filterBaseStablecoins(pools, minTvl,       *)
(* maxApy) is on the configured chain, is flagged stablecoin, has          *)
(* tvlUsd >= minTvl and apy <= maxApy (a missing number counts as 0, as in *)
(* the comparison), and has a symbol that contains a recognized USD-stable *)
(* symbol.                                                                 *)
(***************************************************************************)
C7_FilteredRecordsQualify ==
    stage \in {"filtered", "top"} =>
        \A i \in DOMAIN filtered :
            /\ Has(filtered[i], "chain") /\ filtered[i].chain = ConfigChain
            /\ Has(filtered[i], "stablecoin") /\ filtered[i].stablecoin = TRUE
            /\ NumOr0(filtered[i], "tvlUsd") >= minTvl
            /\ NumOr0(filtered[i], "apy") <= maxApy
            /\ Has(filtered[i], "symbol")
            /\ \E j \in DOMAIN usdSymbols :
                   includes(toUpperCase(filtered[i].symbol), usdSymbols[j])

\* a feed with a record that fails a rule next to one that passes has been filtered
C7_Witness ==
    /\ stage = "filtered"
    /\ Len(pools) = 2
    /\ Len(filtered) = 1

\* the pools of a list whose token address getTokenAddress resolves
Resolvable(poolList) ==
    {i \in DOMAIN poolList :
        getTokenAddress(StrOrUndefined(poolList[i], "project"),
                        TextOrEmpty(poolList[i], "symbol")) # NoAddress}

\* pool i comes first among the pools of S in descending-apy order (ties: list order)
RanksFirst(poolList, S, i) ==
    /\ i \in S
    /\ \A j \in S :
          \/ NumOr0(poolList[j], "apy") < NumOr0(poolList[i], "apy")
          \/ NumOr0(poolList[j], "apy") = NumOr0(poolList[i], "apy") /\ i <= j

getTokenAddressForPool(pool) ==
    IF ~Has(pool, "project") THEN NoAddress
    ELSE AddressInMap(tokenAddressMap(pool.project), toUpperCase(TextOrEmpty(pool, "symbol")))

\* buildPoolLookup(yieldPools).byAddress.get(key): the last pool written under the key
RECURSIVE byAddressGet(_, _)
byAddressGet(yieldPools, key) ==
    IF yieldPools = << >> THEN Null
    ELSE LET WrittenUnder(tokenAddress) ==
                 tokenAddress # NoAddress /\ toLowerCase(tokenAddress) = key
         IN  IF WrittenUnder(getTokenAddressForPool(yieldPools[Len(yieldPools)]))
             THEN yieldPools[Len(yieldPools)]
             ELSE byAddressGet(SubSeq(yieldPools, 1, Len(yieldPools) - 1), key)

\* buildPoolLookup(yieldPools).bySymbol.get(key): the pools of that lower-cased
\* symbol, in catalog order (an empty list where the map has no entry)
bySymbolGet(yieldPools, key) ==
    SelectSeq(yieldPools,
              LAMBDA pool : /\ TextOrEmpty(pool, "symbol") # << >>
                            /\ toLowerCase(pool.symbol) = key)

\* symbolMatches.reduce((best, pool) => (pool.apy || 0) > (best.apy || 0) ? pool : best)
RECURSIVE ReduceBestApy(_, _)
ReduceBestApy(best, rest) ==
    IF rest = << >> THEN best
    ELSE ReduceBestApy(IF NumOr0(Head(rest), "apy") > NumOr0(best, "apy")
                       THEN Head(rest) ELSE best,
                       Tail(rest))

yieldPrefixes ==
    { <<"A">>, <<"C">>, <<"M">>, <<"S">>, <<"A","B","A","S">>, <<"C","B","A","S">>,
      <<"M","B","A","S">>, <<"S","B","A","S">> }
yieldBases == {SymUSDC, SymUSDT, SymDAI, SymUSDBC}

\* faulty variant: the pattern with an optional prefix, which plain symbols match
yieldBearingPattern_PrefixOptional(symbol) ==
    LET upper == toUpperCase(symbol)
    IN  \E p \in yieldPrefixes \cup {<< >>}, b \in yieldBases : startsWith(upper, p \o b)

\* /^(A|C|M|S|ABAS|CBAS|MBAS|SBAS)(USDC|USDT|DAI|USDBC)/i .test(symbol)
yieldBearingPattern(symbol) ==
    LET upper == toUpperCase(symbol)
    IN  \E p \in yieldPrefixes, b \in yieldBases : startsWith(upper, p \o b)

\* priority 1: the pool written under the holding's lower-cased address, or Null
AddressMatch(holding, yieldPools) ==
    IF TextOrEmpty(holding, "address") # << >>
    THEN byAddressGet(yieldPools, toLowerCase(holding.address))
    ELSE Null

\* priority 2: for an upper-cased symbol of the yield-bearing pattern, the pool of
\* highest apy among those of that symbol, or Null
SymbolMatch(symbol, yieldPools) ==
    LET Best(symbolMatches) ==
            IF symbolMatches # << >>
            THEN ReduceBestApy(Head(symbolMatches), Tail(symbolMatches))
            ELSE Null
    IN  IF yieldBearingPattern(symbol)
        THEN Best(bySymbolGet(yieldPools, toLowerCase(symbol)))
        ELSE Null

\* faulty variant: the symbol match is tried before the address match
matchHoldingToPool_SymbolFirst(holding, yieldPools) ==
    LET First(symbolMatch) ==
            IF symbolMatch # Null THEN symbolMatch ELSE AddressMatch(holding, yieldPools)
    IN  First(SymbolMatch(toUpperCase(TextOrEmpty(holding, "symbol")), yieldPools))

matchHoldingToPool(holding, yieldPools) ==
    LET First(addressMatch) ==
            IF addressMatch # Null THEN addressMatch
            ELSE SymbolMatch(toUpperCase(TextOrEmpty(holding, "symbol")), yieldPools)
    IN  First(AddressMatch(holding, yieldPools))

\* the enriched copy of one holding
EnrichHolding(holding, yieldPools) ==
    LET Enriched(matchingPool) ==
            Spread(holding,
                   [currentApy |-> IF matchingPool # Null THEN NumOr0(matchingPool, "apy") ELSE 0,
                    pool |-> matchingPool,
                    hasYieldData |-> matchingPool # Null,
                    matchedProject |-> IF matchingPool # Null /\ Has(matchingPool, "project")
                                       THEN matchingPool.project ELSE NullStr])
    IN  Enriched(matchHoldingToPool(holding, yieldPools))

\* faulty variant: the holdings without a match are left out of the result
getCurrentHoldingApy_MatchedOnly(userHoldings, yieldPools) ==
    SelectSeq([i \in DOMAIN userHoldings |-> EnrichHolding(userHoldings[i], yieldPools)],
              LAMBDA holding : holding.hasYieldData)

\* userHoldings.map(holding => ...)
RECURSIVE getCurrentHoldingApy(_, _)
getCurrentHoldingApy(userHoldings, yieldPools) ==
    IF userHoldings = << >> THEN << >>
    ELSE <<EnrichHolding(Head(userHoldings), yieldPools)>>
         \o getCurrentHoldingApy(Tail(userHoldings), yieldPools)

stableSymbols == {SymUSDC, SymUSDT, SymDAI, SymUSDBC, SymFRAX, SymLUSD}

\* faulty variant: the filter without the minimum-balance condition
IsRotationCandidate_NoMinBalance(holding, yieldPools) ==
    \/ toUpperCase(TextOrEmpty(holding, "symbol")) \in stableSymbols
    \/ matchHoldingToPool(holding, yieldPools) # Null

\* the predicate of filterYieldBearingHoldings' filter
IsRotationCandidate(holding, yieldPools) ==
    LET symbol == toUpperCase(TextOrEmpty(holding, "symbol"))
        isPlainStable == symbol \in stableSymbols
        isYieldBearing == matchHoldingToPool(holding, yieldPools) # Null
        isEligible == isPlainStable \/ isYieldBearing
        meetsMinBalance ==
            /\ Has(holding, "balanceUsd")
            /\ \/ holding.balanceUsd >= MinBalanceUsd
               \/ holding.balanceUsd = 0 /\ Has(holding, "balance") /\ holding.balance > 0
    IN  isEligible /\ meetsMinBalance

filterYieldBearingHoldings(holdings, yieldPools) ==
    SelectSeq(holdings, LAMBDA holding : IsRotationCandidate(holding, yieldPools))

RECURSIVE SumBalanceUsd(_)
SumBalanceUsd(holdings) ==
    IF holdings = << >> THEN 0
    ELSE NumOr0(Head(holdings), "balanceUsd") + SumBalanceUsd(Tail(holdings))

\* one member of getEnrichedMemberData's result (averageCurrentApy, a logged
\* weighted mean that no code reads, is left out)
EnrichMember(member, yieldPools) ==
    LET Enriched(enrichedHoldings, yieldBearingHoldings) ==
            Spread(member,
                   [holdings |-> enrichedHoldings,
                    yieldBearingHoldings |-> yieldBearingHoldings,
                    totalYieldBearingUsd |-> SumBalanceUsd(yieldBearingHoldings),
                    yieldBearingCount |-> Len(yieldBearingHoldings)])
        Filtered(enrichedHoldings) ==
            Enriched(enrichedHoldings, filterYieldBearingHoldings(enrichedHoldings, yieldPools))
    IN  Filtered(getCurrentHoldingApy(member.holdings, yieldPools))

\* members.map(member => ...)
RECURSIVE getEnrichedMemberData(_, _)
getEnrichedMemberData(memberList, yieldPools) ==
    IF memberList = << >> THEN << >>
    ELSE <<EnrichMember(Head(memberList), yieldPools)>>
         \o getEnrichedMemberData(Tail(memberList), yieldPools)

(***************************************************************************)
(* rotator.js: rotation planner.                                           *)
(***************************************************************************)
\* faulty variant: a strict comparison with the threshold
shouldRotate_Strict(currentApy, bestApy) ==
    bestApy - currentApy > minApyImprovement

shouldRotate(currentApy, bestApy) ==
    LET improvement == bestApy - currentApy
    IN  improvement >= minApyImprovement

\* the properties of the holding copied into rotation.fromToken
FromToken(holding) ==
    Pick(holding, {"symbol", "address", "balance", "balanceUsd", "currentApy"})

\* the properties of the best pool copied into rotation.toToken
ToToken(bestPool) ==
    Spread(Pick(bestPool, {"symbol", "project"}),
           [address |-> bestPool.tokenAddress, targetApy |-> bestPool.apy])

\* faulty variant: every candidate holding that is not in the best pool is rotated,
\* without the call of shouldRotate
RotationsForHolding_NoThreshold(user, holding, bestPool) ==
    LET isInBestPool ==
            /\ Has(bestPool, "project")
            /\ holding.matchedProject = bestPool.project
            /\ LET d == NumOr0(holding, "currentApy") - bestPool.apy
               IN  (IF d < 0 THEN 0 - d ELSE d) < 10
    IN  IF isInBestPool THEN << >>
        ELSE << [userAddress |-> user.address,
                 membershipId |-> user.membershipId,
                 fromToken |-> FromToken(holding),
                 toToken |-> ToToken(bestPool),
                 apyImprovement |-> bestPool.apy - holding.currentApy,
                 estimatedAnnualGainUsd |->
                     (holding.balanceUsd * (bestPool.apy - holding.currentApy)) \div 100] >>

\* faulty variant: no skip of the holdings that are in the best pool already
RotationsForHolding_NoBestPoolSkip(user, holding, bestPool) ==
    IF shouldRotate(holding.currentApy, bestPool.apy)
    THEN << [userAddress |-> user.address,
             membershipId |-> user.membershipId,
             fromToken |-> FromToken(holding),
             toToken |-> ToToken(bestPool),
             apyImprovement |-> bestPool.apy - holding.currentApy,
             estimatedAnnualGainUsd |->
                 (holding.balanceUsd * (bestPool.apy - holding.currentApy)) \div 100] >>
    ELSE << >>

\* the rotations calculateRotations pushes for one holding of one user: none or one
RotationsForHolding(user, holding, bestPool) ==
    LET isInBestPool ==
            /\ Has(bestPool, "project")
            /\ holding.matchedProject = bestPool.project
            /\ LET d == NumOr0(holding, "currentApy") - bestPool.apy
               IN  (IF d < 0 THEN 0 - d ELSE d) < 10
    IN  IF isInBestPool THEN << >>
        ELSE IF shouldRotate(holding.currentApy, bestPool.apy)
             THEN << [userAddress |-> user.address,
                      membershipId |-> user.membershipId,
                      fromToken |-> FromToken(holding),
                      toToken |-> ToToken(bestPool),
                      apyImprovement |-> bestPool.apy - holding.currentApy,
                      estimatedAnnualGainUsd |->
                          (holding.balanceUsd * (bestPool.apy - holding.currentApy)) \div 100] >>
             ELSE << >>

RECURSIVE RotationsForHoldings(_, _, _)
RotationsForHoldings(user, holdings, bestPool) ==
    IF holdings = << >> THEN << >>
    ELSE RotationsForHolding(user, Head(holdings), bestPool)
             \o RotationsForHoldings(user, Tail(holdings), bestPool)

RECURSIVE RotationsForUsers(_, _)
RotationsForUsers(users, bestPool) ==
    IF users = << >> THEN << >>
    ELSE RotationsForHoldings(Head(users),
                              IF Has(Head(users), "yieldBearingHoldings")
                              THEN Head(users).yieldBearingHoldings ELSE << >>,
                              bestPool)
             \o RotationsForUsers(Tail(users), bestPool)

calculateRotations(users, bestPool) ==
    IF bestPool = Null THEN << >> ELSE RotationsForUsers(users, bestPool)

(***************************************************************************)
(* Inputs of a run: a catalog (yieldData.pools, every pool of which passes *)
(* filterBaseStablecoins) and the swarm's members as getSwarmMemberBalances*)
(* returns them.  The pools and holdings are those of balances.test.js and *)
(* variations of them.                                                     *)
(***************************************************************************)
AddrETH == <<"0","x","E","e","e","e","e","E">>        \* 0xEeeeeEee... native ETH

CatalogPools ==
    { FeedPool("aave-base-usdc", "Base", SymUSDC, "aave-v3", 550, 1000000000, TRUE),
      FeedPool("aave-base-usdc-2", "Base", SymUSDC, "aave-v3", 580, 100000000, TRUE),
      FeedPool("moonwell-base-usdc", "Base", SymUSDC, "moonwell-lending", 600, 750000000, TRUE),
      FeedPool("vault-musdc", "Base", SymMUSDC, "beefy", 650, 300000000, TRUE) }

Holdings ==
    { [symbol |-> SymUSDC, balance |-> 10000, balanceUsd |-> 10000],
      [symbol |-> SymUSDC, address |-> AddrABasUSDC, balance |-> 10000, balanceUsd |-> 10000],
      [symbol |-> SymMUSDC, address |-> toLowerCase(AddrMUSDC), balance |-> 20000,
       balanceUsd |-> 20000],
      [symbol |-> SymMUSDC, balance |-> 10000, balanceUsd |-> 10000],
      [symbol |-> SymETH, address |-> AddrETH, balance |-> 100, balanceUsd |-> 0],
      [symbol |-> SymDAI, balance |-> 500, balanceUsd |-> 500],
      [address |-> toLowerCase(AddrABasUSDC), balance |-> 10000, balanceUsd |-> 0] }

Member(n, holdings) ==
    IF n = 1
    THEN [address |-> "0xAgent1", membershipId |-> "member-1", userWalletAddress |-> "0xUser1",
          holdings |-> holdings]
    ELSE [address |-> "0xAgent2", membershipId |-> "member-2", userWalletAddress |-> "0xUser2",
          holdings |-> holdings]

\* the member lists over the holdings H that hold at most n holdings in all: no
\* member, one member with all of them, or a first member with one and a second
\* with the others
MemberLists(H, n) ==
    LET lists == SeqsUpTo(H, n)
    IN  {<< >>}
        \cup {<<Member(1, hs)>> : hs \in lists}
        \cup {<<Member(1, <<Head(hs)>>), Member(2, Tail(hs))>> : hs \in lists \ {<< >>}}

(***************************************************************************)
(* Spec: one run of runRotation from the catalog on: the top record, the   *)
(* enriched members, the rotations.                                        *)
(***************************************************************************)
Init ==
    /\ stage = "filtered"
    /\ pools = << >>
    /\ minTvl = DefaultMinTvl
    /\ maxApy = MAX_STABLE_APY
    /\ minApyImprovement = MinApyImprovement
    /\ filtered \in SeqsUpTo(CatalogPools, MaxPools)
    /\ top = Null
    /\ dryRun = FALSE
    /\ InitRest

\* runRotation: no top record, return
NoTopYielding ==
    /\ stage = "top"
    /\ top = Null
    /\ stage' = "done"
    /\ UNCHANGED <<pools, minTvl, maxApy, minApyImprovement,
                   filtered, top, members, rotations, srArgs, srResult,
                   stats, dispatchVars,
                   callVars, reportVars>>

\* faulty variant: the holdings query is made without looking at topYielding
EnrichMembers_NoTopCheck(memberLists) ==
    /\ stage = "top"
    /\ \E memberList \in memberLists :
           /\ apiCalls' = Append(apiCalls, [op |-> "getSwarmHoldings",
                                             members |-> Len(memberList)])
           /\ members' = getEnrichedMemberData(memberList, filtered)
           /\ stats' = [stats EXCEPT !.usersChecked = Len(members')]
    /\ stage' = "enriched"
    /\ UNCHANGED <<pools, minTvl, maxApy, minApyImprovement,
                   filtered, top, rotations, srArgs, srResult,
                   dryRun, prioritized, validRotations, cursor, swapPc, results,
                   callVars, reportVars>>

\* runRotation step 2: getEnrichedMemberData(yieldData.pools), where the holdings
\* query client.getSwarmHoldings answers with one of memberLists, which is then
\* enriched; stats.usersChecked = members.length
EnrichMembers(memberLists) ==
    /\ stage = "top"
    /\ top # Null
    /\ \E memberList \in memberLists :
           /\ apiCalls' = Append(apiCalls, [op |-> "getSwarmHoldings",
                                             members |-> Len(memberList)])
           /\ members' = getEnrichedMemberData(memberList, filtered)
           /\ stats' = [stats EXCEPT !.usersChecked = Len(members')]
    /\ stage' = "enriched"
    /\ UNCHANGED <<pools, minTvl, maxApy, minApyImprovement,
                   filtered, top, rotations, srArgs, srResult,
                   dryRun, prioritized, validRotations, cursor, swapPc, results,
                   callVars, reportVars>>

GetEnrichedMemberData == EnrichMembers(MemberLists(Holdings, MaxHoldings))

\* runRotation: no members, return
NoMembers ==
    /\ stage = "enriched"
    /\ members = << >>
    /\ stage' = "done"
    /\ UNCHANGED <<pools, minTvl, maxApy, minApyImprovement,
                   filtered, top, members, rotations, srArgs, srResult,
                   stats, dispatchVars,
                   callVars, reportVars>>

CalculateRotations ==
    /\ stage = "enriched"
    /\ members # << >>
    /\ rotations' = calculateRotations(members, top)
    /\ stage' = "planned"
    /\ UNCHANGED <<pools, minTvl, maxApy, minApyImprovement,
                   filtered, top, members, srArgs, srResult,
                   stats, dispatchVars,
                   callVars, reportVars>>

Next ==
    \/ GetTopYieldingStable
    \/ NoTopYielding
    \/ GetEnrichedMemberData
    \/ NoMembers
    \/ CalculateRotations

Spec == Init /\ [][Next]_vars

(***************************************************************************)
(* swapper.js: swap dispatcher.                                            *)
(***************************************************************************)
MaxSlippage == 100          \* config.maxSlippage, 1 %
SellPercentage == 100       \* sellPercentage: 100


\* TOKEN_ADDRESSES as key / address pairs
TOKEN_ADDRESSES ==
    << <<SymETH, AddrETH>>,
       << <<"W","E","T","H">>, <<"0","x","4","2","0","0","0","0">> >>,      \* 0x42000000... WETH
       << SymUSDC, <<"0","x","8","3","3","5","8","9">> >>,                  \* 0x833589fC... USDC
       << SymDAI, <<"0","x","5","0","c","5","7","2">> >>,                   \* 0x50c57259... DAI
       << <<"U","S","D","b","C">>, <<"0","x","d","9","a","A","E","c">> >> >>  \* 0xd9aAEc86... USDbC

\* resolveTokenAddress(symbolOrAddress, explicitAddress); an absent argument is
\* the empty text, and so is an undefined result
resolveTokenAddress(symbolOrAddress, explicitAddress) ==
    IF explicitAddress # NoAddress /\ startsWith(explicitAddress, <<"0","x">>)
    THEN explicitAddress
    ELSE IF symbolOrAddress # << >> /\ startsWith(symbolOrAddress, <<"0","x">>)
    THEN symbolOrAddress
    ELSE LET upperSymbol == toUpperCase(symbolOrAddress)
             hits == {i \in DOMAIN TOKEN_ADDRESSES : TOKEN_ADDRESSES[i][1] = upperSymbol}
         IN  IF hits # {} THEN TOKEN_ADDRESSES[CHOOSE i \in hits : TRUE][2]
             ELSE symbolOrAddress

\* rotation.fromToken?.f / rotation.toToken?.f for a text property
TokenText(rotation, token, f) ==
    IF Has(rotation, token) THEN TextOrEmpty(rotation[token], f) ELSE << >>

\* faulty variant: the rules without the minimum-balance rule
validateSwapErrors_NoMinBalance(rotation) ==
    (IF ~Has(rotation, "userAddress") \/ rotation.userAddress = ""
     THEN <<"Missing user address">> ELSE << >>)
    \o (IF TokenText(rotation, "fromToken", "symbol") = << >>
        THEN <<"Missing source token">> ELSE << >>)
    \o (IF TokenText(rotation, "toToken", "symbol") = << >>
        THEN <<"Missing destination token">> ELSE << >>)
    \o (IF \/ ~Has(rotation, "fromToken")
           \/ NumOr0(rotation.fromToken, "balance") <= 0
        THEN <<"Invalid swap amount">> ELSE << >>)

\* validateSwap(rotation).errors
validateSwapErrors(rotation) ==
    (IF ~Has(rotation, "userAddress") \/ rotation.userAddress = ""
     THEN <<"Missing user address">> ELSE << >>)
    \o (IF TokenText(rotation, "fromToken", "symbol") = << >>
        THEN <<"Missing source token">> ELSE << >>)
    \o (IF TokenText(rotation, "toToken", "symbol") = << >>
        THEN <<"Missing destination token">> ELSE << >>)
    \o (IF \/ ~Has(rotation, "fromToken")
           \/ NumOr0(rotation.fromToken, "balance") <= 0
        THEN <<"Invalid swap amount">> ELSE << >>)
    \o (IF /\ Has(rotation, "fromToken")
           /\ Has(rotation.fromToken, "balanceUsd")
           /\ rotation.fromToken.balanceUsd < MinBalanceUsd
        THEN <<"Balance below minimum">> ELSE << >>)

\* validateSwap(rotation)
validateSwap(rotation) ==
    LET errors == validateSwapErrors(rotation)
    IN  [valid |-> errors = << >>, errors |-> errors]

\* faulty variant: no comparison of the gains
InsertByGain_AtFront(sorted, rotation) == <<rotation>> \o sorted

\* [...rotations].sort((a, b) => b.estimatedAnnualGainUsd - a.estimatedAnnualGainUsd):
\* stable, descending
RECURSIVE InsertByGain(_, _)
InsertByGain(sorted, rotation) ==
    IF sorted = << >> THEN <<rotation>>
    ELSE IF Head(sorted).estimatedAnnualGainUsd >= rotation.estimatedAnnualGainUsd
         THEN <<Head(sorted)>> \o InsertByGain(Tail(sorted), rotation)
         ELSE <<rotation>> \o sorted

RECURSIVE prioritizeRotations(_)
prioritizeRotations(rotationList) ==
    IF rotationList = << >> THEN << >>
    ELSE InsertByGain(prioritizeRotations(SubSeq(rotationList, 1, Len(rotationList) - 1)),
                      rotationList[Len(rotationList)])

RECURSIVE Sum(_)
Sum(numbers) == IF numbers = << >> THEN 0 ELSE Head(numbers) + Sum(Tail(numbers))

\* a / b for b > 0: the exact quotient, kept as the fraction
Divide(a, b) == [num |-> a, den |-> b]

\* faulty variant: every rotation counted as a user of its own
getRotationSummary_UsersNotDistinct(rotationList) ==
    [totalRotations |-> Len(rotationList),
     uniqueUsers |-> Len(rotationList),
     totalValueToRotate |-> Sum([i \in DOMAIN rotationList |-> rotationList[i].fromToken.balanceUsd]),
     totalEstimatedAnnualGain |-> Sum([i \in DOMAIN rotationList |-> rotationList[i].estimatedAnnualGainUsd]),
     averageApyImprovement |-> IF Len(rotationList) > 0
         THEN Divide(Sum([i \in DOMAIN rotationList |-> rotationList[i].apyImprovement]), Len(rotationList))
         ELSE 0]

\* getRotationSummary(rotations)
getRotationSummary(rotationList) ==
    [totalRotations |-> Len(rotationList),
     uniqueUsers |->
         Cardinality({rotationList[i].userAddress : i \in DOMAIN rotationList}),
     totalValueToRotate |->
         Sum([i \in DOMAIN rotationList |-> rotationList[i].fromToken.balanceUsd]),
     totalEstimatedAnnualGain |->
         Sum([i \in DOMAIN rotationList |-> rotationList[i].estimatedAnnualGainUsd]),
     averageApyImprovement |->
         IF Len(rotationList) > 0
         THEN Divide(Sum([i \in DOMAIN rotationList |-> rotationList[i].apyImprovement]),
                     Len(rotationList))
         ELSE 0]

\* faulty variant: swapParams without membershipIds, a swap of the whole swarm
SwapParams_WholeSwarm(rotation) ==
    [sellToken |-> resolveTokenAddress(TextOrEmpty(rotation.fromToken, "symbol"),
                                       TextOrEmpty(rotation.fromToken, "address")),
     buyToken |-> resolveTokenAddress(TextOrEmpty(rotation.toToken, "symbol"),
                                      TextOrEmpty(rotation.toToken, "address")),
     sellPercentage |-> SellPercentage,
     slippagePercentage |-> MaxSlippage]

\* executeSwap's swapParams for a rotation: executeRotations passes
\* rotation.fromToken, rotation.toToken and rotation.membershipId
SwapParams(rotation) ==
    Spread([sellToken |-> resolveTokenAddress(TextOrEmpty(rotation.fromToken, "symbol"),
                                              TextOrEmpty(rotation.fromToken, "address")),
            buyToken |-> resolveTokenAddress(TextOrEmpty(rotation.toToken, "symbol"),
                                             TextOrEmpty(rotation.toToken, "address")),
            sellPercentage |-> SellPercentage,
            slippagePercentage |-> MaxSlippage],
           IF Has(rotation, "membershipId") /\ rotation.membershipId # ""
           THEN [membershipIds |-> <<rotation.membershipId>>]
           ELSE <<>>)

\* the properties every result of executeSwap carries
SwapResult(rotation, outcome) ==
    Spread([userAddress |-> rotation.userAddress,
            fromToken |-> TextOrEmpty(rotation.fromToken, "symbol"),
            toToken |-> TextOrEmpty(rotation.toToken, "symbol"),
            amount |-> rotation.fromToken.balance],
           outcome)

\* the transaction id the execute endpoint returns for the swap at the cursor
TransactionId(i) == <<"tx", i>>

(***************************************************************************)
(* SpecRun: one run of runRotation from the catalog to the end of the      *)
(* dispatch, live or dry.  The wallet API answers every call in any of the *)
(* ways it can: a preview comes back clean, with errors, or the call       *)
(* throws; an execution returns a transaction id, none, or throws; the     *)
(* wait returns a CONFIRMED or a FAILED transaction, or throws (time-out). *)
(***************************************************************************)
\* what the catalog, the matcher and the planner write
planVars == <<pools, minTvl, maxApy, minApyImprovement,
              filtered, top, members, rotations, srArgs, srResult>>

RunPools ==
    { FeedPool("aave-base-usdc", "Base", SymUSDC, "aave-v3", 550, 1000000000, TRUE),
      FeedPool("morpho-base-usdc", "Base", SymUSDC, "morpho-blue", 900, 500000000, TRUE) }

RunHoldings ==
    { [symbol |-> SymUSDC, balance |-> 10000, balanceUsd |-> 10000],
      [symbol |-> SymUSDC, address |-> AddrABasUSDC, balance |-> 20000, balanceUsd |-> 20000],
      [symbol |-> SymDAI, balance |-> 500, balanceUsd |-> 500],
      [address |-> toLowerCase(AddrABasUSDC), balance |-> 10000, balanceUsd |-> 0],
      [symbol |-> SymUSDC, balance |-> 5000, balanceUsd |-> 0] }

InitRun ==
    /\ stage = "filtered"
    /\ pools = << >>
    /\ minTvl = DefaultMinTvl
    /\ maxApy = MAX_STABLE_APY
    /\ minApyImprovement = MinApyImprovement
    /\ filtered \in SeqsUpTo(RunPools, MaxPools)
    /\ top = Null
    /\ dryRun \in BOOLEAN
    /\ InitRest

GetEnrichedMemberDataRun == EnrichMembers(MemberLists(RunHoldings, MaxHoldings))

\* runRotation step 3: prioritizeRotations(rotations) and the summary of the
\* prioritized rotations
PrioritizeRotations ==
    /\ stage = "planned"
    /\ prioritized' = prioritizeRotations(rotations)
    /\ summary' = getRotationSummary(prioritized')
    /\ stage' = "prioritized"
    /\ UNCHANGED <<planVars, stats, dryRun, validRotations, cursor, swapPc, apiCalls, results,
                   callVars, logged, exitCode>>

\* runRotation: no rotations, return
NoRotations ==
    /\ stage = "prioritized"
    /\ prioritized = << >>
    /\ stage' = "done"
    /\ UNCHANGED <<planVars, stats, dispatchVars,
                   callVars, reportVars>>

\* faulty variant: every prioritized rotation is handed to executeRotations
ValidateRotations_NoFilter ==
    /\ stage = "prioritized"
    /\ prioritized # << >>
    /\ validRotations' = prioritized
    /\ results' = EmptyResults
    /\ cursor' = 1
    /\ swapPc' = "start"
    /\ stage' = "dispatching"
    /\ UNCHANGED <<planVars, stats, dryRun, prioritized, apiCalls,
                   callVars, reportVars>>

\* runRotation step 4: the filter on validateSwap, which counts the rotations it
\* drops in stats.swapsSkipped, and the call of executeRotations
ValidateRotations ==
    /\ stage = "prioritized"
    /\ prioritized # << >>
    /\ LET valid == SelectSeq(prioritized, LAMBDA rotation : validateSwap(rotation).valid)
       IN  /\ validRotations' = valid
           /\ stats' = [stats EXCEPT !.swapsSkipped = @ + (Len(prioritized) - Len(valid))]
    /\ results' = EmptyResults
    /\ cursor' = 1
    /\ swapPc' = "start"
    /\ stage' = "dispatching"
    /\ UNCHANGED <<planVars, dryRun, prioritized, apiCalls,
                   callVars, reportVars>>

\* executeRotations: the result of executeSwap is pushed to executed when it
\* has success, to failed otherwise, and the loop moves on
Classified(result) ==
    /\ results' = IF result.success
                  THEN [results EXCEPT !.executed =
                            Append(@, [rotation |-> validRotations[cursor], result |-> result])]
                  ELSE [results EXCEPT !.failed =
                            Append(@, [rotation |-> validRotations[cursor], result |-> result])]
    /\ cursor' = cursor + 1
    /\ swapPc' = "start"

\* faulty variant: a call that threw leaves its rotation in no list
Caught_Dropped(message) ==
    /\ cursor' = cursor + 1
    /\ swapPc' = "start"
    /\ UNCHANGED results

\* executeSwap's catch: the error of a call that threw becomes a failure result
Caught(message) ==
    Classified(SwapResult(validRotations[cursor], [success |-> FALSE, error |-> message]))

InSwap(pc) ==
    /\ stage = "dispatching"
    /\ cursor <= Len(validRotations)
    /\ swapPc = pc

\* executeSwap under config.dryRun: a success result, no call
SwapDryRun ==
    /\ InSwap("start")
    /\ dryRun
    /\ Classified(SwapResult(validRotations[cursor], [success |-> TRUE, dryRun |-> TRUE]))
    /\ UNCHANGED <<stage, planVars, stats, dryRun, prioritized, validRotations, apiCalls,
                   callVars, reportVars>>

\* faulty variant: the preview is made without a look at config.dryRun
PreviewSwap_IgnoresDryRun ==
    /\ InSwap("start")
    /\ \E answer \in {"clean", "errors", "throws"} :
           /\ apiCalls' = Append(apiCalls, [op |-> "previewSwap", rotation |-> cursor,
                                             params |-> SwapParams(validRotations[cursor]),
                                             answer |-> answer])
           /\ CASE answer = "clean" ->
                       /\ swapPc' = "previewed"
                       /\ UNCHANGED <<cursor, results>>
                [] answer = "errors" ->
                       Classified(SwapResult(validRotations[cursor],
                                             [success |-> FALSE, error |-> "Swap preview failed"]))
                [] answer = "throws" -> Caught("previewSwap failed")
    /\ UNCHANGED <<stage, planVars, stats, dryRun, prioritized, validRotations,
                   callVars, reportVars>>

\* faulty variant: the preview's errors are not looked at
PreviewSwap_IgnoresErrors ==
    /\ InSwap("start")
    /\ ~dryRun
    /\ \E answer \in {"clean", "errors", "throws"} :
           /\ apiCalls' = Append(apiCalls, [op |-> "previewSwap", rotation |-> cursor,
                                             params |-> SwapParams(validRotations[cursor]),
                                             answer |-> answer])
           /\ CASE answer \in {"clean", "errors"} ->
                       /\ swapPc' = "previewed"
                       /\ UNCHANGED <<cursor, results>>
                [] answer = "throws" -> Caught("previewSwap failed")
    /\ UNCHANGED <<stage, planVars, stats, dryRun, prioritized, validRotations,
                   callVars, reportVars>>

\* executeSwap: client.previewSwap(swarmId, swapParams)
PreviewSwap ==
    /\ InSwap("start")
    /\ ~dryRun
    /\ \E answer \in {"clean", "errors", "throws"} :
           /\ apiCalls' = Append(apiCalls, [op |-> "previewSwap", rotation |-> cursor,
                                             params |-> SwapParams(validRotations[cursor]),
                                             answer |-> answer])
           /\ CASE answer = "clean" ->
                       /\ swapPc' = "previewed"
                       /\ UNCHANGED <<cursor, results>>
                [] answer = "errors" ->
                       Classified(SwapResult(validRotations[cursor],
                                             [success |-> FALSE, error |-> "Swap preview failed"]))
                [] answer = "throws" -> Caught("previewSwap failed")
    /\ UNCHANGED <<stage, planVars, stats, dryRun, prioritized, validRotations,
                   callVars, reportVars>>

\* faulty variant: the loop moves on once the swap is submitted, without waiting
\* for its transaction
ExecuteSwap_NotAwaited ==
    /\ InSwap("previewed")
    /\ \E answer \in {"submitted", "noTransactionId", "throws"} :
           /\ apiCalls' = Append(apiCalls, [op |-> "executeSwap", rotation |-> cursor,
                                             params |-> SwapParams(validRotations[cursor]),
                                             answer |-> answer])
           /\ CASE answer = "submitted" ->
                       /\ cursor' = cursor + 1
                       /\ swapPc' = "start"
                       /\ UNCHANGED results
                [] answer = "noTransactionId" ->
                       Caught("No transaction ID returned from swap execution")
                [] answer = "throws" -> Caught("executeSwap failed")
    /\ UNCHANGED <<stage, planVars, stats, dryRun, prioritized, validRotations,
                   callVars, reportVars>>

\* executeSwap: client.executeSwap(swarmId, swapParams)
ExecuteSwap ==
    /\ InSwap("previewed")
    /\ \E answer \in {"submitted", "noTransactionId", "throws"} :
           /\ apiCalls' = Append(apiCalls, [op |-> "executeSwap", rotation |-> cursor,
                                             params |-> SwapParams(validRotations[cursor]),
                                             answer |-> answer])
           /\ CASE answer = "submitted" ->
                       /\ swapPc' = "submitted"
                       /\ UNCHANGED <<cursor, results>>
                [] answer = "noTransactionId" ->
                       Caught("No transaction ID returned from swap execution")
                [] answer = "throws" -> Caught("executeSwap failed")
    /\ UNCHANGED <<stage, planVars, stats, dryRun, prioritized, validRotations,
                   callVars, reportVars>>

\* executeSwap: client.waitForTransaction(result.transactionId); whatever the
\* status of the transaction returned, the result has success
WaitForTransaction ==
    /\ InSwap("submitted")
    /\ \E answer \in {"CONFIRMED", "FAILED", "throws"} :
           /\ apiCalls' = Append(apiCalls, [op |-> "waitForTransaction", rotation |-> cursor,
                                             transactionId |-> TransactionId(cursor),
                                             answer |-> answer])
           /\ IF answer = "throws" THEN Caught("waitForTransaction failed")
              ELSE Classified(SwapResult(validRotations[cursor],
                                         [success |-> TRUE,
                                          transactionId |-> TransactionId(cursor),
                                          status |-> answer]))
    /\ UNCHANGED <<stage, planVars, stats, dryRun, prioritized, validRotations,
                   callVars, reportVars>>

\* faulty variant: the skipped count is overwritten with that of the results
FinishRun_SkippedOverwritten ==
    /\ stage = "dispatching"
    /\ cursor > Len(validRotations)
    /\ stats' = [stats EXCEPT !.swapsExecuted = Len(results.executed),
                              !.swapsSkipped = Len(results.skipped),
                              !.errors = Len(results.failed)]
    /\ logged' = Append(logged, stats')
    /\ stage' = "done"
    /\ UNCHANGED <<planVars, dispatchVars, callVars, summary, exitCode>>

\* runRotation after executeRotations has returned: the counts of the results
\* and logger.summary(stats)
FinishRun ==
    /\ stage = "dispatching"
    /\ cursor > Len(validRotations)
    /\ stats' = [stats EXCEPT !.swapsExecuted = Len(results.executed),
                              !.swapsSkipped = @ + Len(results.skipped),
                              !.errors = Len(results.failed)]
    /\ logged' = Append(logged, stats')
    /\ stage' = "done"
    /\ UNCHANGED <<planVars, dispatchVars, callVars, summary, exitCode>>

\* runRotation step 2 when the holdings query fails: getSwarmMemberBalances
\* rethrows, runRotation's catch counts the error and rethrows
GetEnrichedMemberDataThrows ==
    /\ stage = "top"
    /\ top # Null
    /\ apiCalls' = Append(apiCalls, [op |-> "getSwarmHoldings"])
    /\ stats' = [stats EXCEPT !.errors = @ + 1]
    /\ stage' = "threw"
    /\ UNCHANGED <<planVars, dryRun, prioritized, validRotations, cursor, swapPc, results,
                   callVars, reportVars>>

\* faulty variant: a run that returns exits with code 0 whatever its error count
ProcessExit_IgnoresErrors ==
    /\ stage \in {"done", "threw"}
    /\ exitCode' = IF stage = "threw" THEN 1 ELSE 0
    /\ stage' = "exited"
    /\ UNCHANGED <<planVars, stats, dispatchVars, callVars, summary, logged>>

\* the process boundary: runRotation().then(stats => process.exit(stats.errors > 0 ? 1 : 0))
\* .catch(error => process.exit(1))
ProcessExit ==
    /\ stage \in {"done", "threw"}
    /\ exitCode' = IF stage = "threw" THEN 1
                   ELSE IF stats.errors > 0 THEN 1 ELSE 0
    /\ stage' = "exited"
    /\ UNCHANGED <<planVars, stats, dispatchVars, callVars, summary, logged>>

NextRun ==
    \/ GetTopYieldingStable
    \/ NoTopYielding
    \/ GetEnrichedMemberDataRun
    \/ GetEnrichedMemberDataThrows
    \/ NoMembers
    \/ CalculateRotations
    \/ PrioritizeRotations
    \/ NoRotations
    \/ ValidateRotations
    \/ SwapDryRun
    \/ PreviewSwap
    \/ ExecuteSwap
    \/ WaitForTransaction
    \/ FinishRun
    \/ ProcessExit

SpecRun == InitRun /\ [][NextRun]_vars

(***************************************************************************)
(* C9: when the top record has tokenAddress = null, every rotation built   *)
(* from it fails validateSwap, and no swap towards it is previewed or      *)
(* executed against the wallet API in that run.                            *)
(***************************************************************************)
C9_NullTargetNeverDispatched ==
    (top # Null /\ top.tokenAddress = NoAddress) =>
        /\ stage = "dispatching" => validRotations = << >>
        /\ \A i \in DOMAIN apiCalls : apiCalls[i].op \notin {"previewSwap", "executeSwap"}

(***************************************************************************)
(* SpecShouldRotate: one call of shouldRotate on any pair of apys.         *)
(***************************************************************************)
ApyValues == {0, 400, 449, 450, 451, 500, 550, 600}

InitShouldRotate ==
    /\ stage = "call"
    /\ srArgs \in {<<c, b>> : c \in ApyValues, b \in ApyValues}
    /\ srResult = FALSE
    /\ pools = << >>
    /\ minTvl = DefaultMinTvl
    /\ maxApy = MAX_STABLE_APY
    /\ minApyImprovement = MinApyImprovement
    /\ filtered = << >>
    /\ top = Null
    /\ members = << >>
    /\ rotations = << >>
    /\ dryRun = FALSE
    /\ InitDispatch
    /\ InitCalls
    /\ InitReport

ShouldRotate ==
    /\ stage = "call"
    /\ srResult' = shouldRotate(srArgs[1], srArgs[2])
    /\ stage' = "returned"
    /\ UNCHANGED <<pools, minTvl, maxApy, minApyImprovement,
                   filtered, top, members, rotations, srArgs,
                   stats, dispatchVars,
                   callVars, reportVars>>

NextShouldRotate == ShouldRotate

SpecShouldRotate == InitShouldRotate /\ [][NextShouldRotate]_vars

CandidateHoldings ==
    UNION {{<<m, h>> : h \in DOMAIN members[m].yieldBearingHoldings} : m \in DOMAIN members}

\* all enriched holdings of the run, as <<member index, holding index>>
EnrichedHoldings ==
    UNION {{<<m, h>> : h \in DOMAIN members[m].holdings} : m \in DOMAIN members}

(***************************************************************************)
(* C1: every rotation emitted by calculateRotations has                    *)
(* apyImprovement = top.apy - holding.currentApy, has                      *)
(* apyImprovement >= minApyImprovement, and has estimatedAnnualGainUsd =   *)
(* holding.balanceUsd * apyImprovement / 100.                              *)
(***************************************************************************)
C1_RotationFieldsDerived ==
    stage = "planned" =>
        \A i \in DOMAIN rotations :
            /\ rotations[i].apyImprovement >= MinApyImprovement
            /\ \E c \in CandidateHoldings :
                   LET holding == members[c[1]].yieldBearingHoldings[c[2]]
                   IN  /\ rotations[i].userAddress = members[c[1]].address
                       /\ rotations[i].fromToken = FromToken(holding)
                       /\ rotations[i].apyImprovement = top.apy - holding.currentApy
                       /\ rotations[i].estimatedAnnualGainUsd * 100 =
                              holding.balanceUsd * rotations[i].apyImprovement

\* a rotation exactly at the threshold with a positive gain has been emitted
C1_Witness ==
    /\ stage = "planned"
    /\ \E i \in DOMAIN rotations :
           /\ rotations[i].apyImprovement = MinApyImprovement
           /\ rotations[i].estimatedAnnualGainUsd > 0

C4_AddressMatchWins ==
    stage = "enriched" =>
        \A e \in EnrichedHoldings :
            LET holding == members[e[1]].holdings[e[2]]
                indexed == IF Has(holding, "address")
                           THEN byAddressGet(filtered, toLowerCase(holding.address))
                           ELSE Null
            IN  indexed # Null =>
                    /\ holding.pool = indexed
                    /\ holding.hasYieldData = TRUE
                    /\ holding.currentApy = indexed.apy
                    /\ holding.matchedProject = indexed.project

\* a holding matched by address to a pool while a pool of higher apy carries its symbol
C4_Witness ==
    /\ stage = "enriched"
    /\ \E e \in EnrichedHoldings :
           LET holding == members[e[1]].holdings[e[2]]
           IN  /\ Has(holding, "address") /\ Has(holding, "symbol")
               /\ holding.hasYieldData
               /\ yieldBearingPattern(holding.symbol)
               /\ \E i \in DOMAIN filtered :
                      /\ toLowerCase(filtered[i].symbol) = toLowerCase(holding.symbol)
                      /\ filtered[i].apy > holding.currentApy
                      /\ filtered[i].project # holding.matchedProject

(***************************************************************************)
(* C5: a holding whose symbol is exactly USDC or DAI and that carries no   *)
(* address gets currentApy = 0 and hasYieldData = false from               *)
(* getCurrentHoldingApy, whatever the catalog holds.                       *)
(***************************************************************************)
C5_PlainStableUnmatched ==
    stage = "enriched" =>
        \A e \in EnrichedHoldings :
            LET holding == members[e[1]].holdings[e[2]]
            IN  (/\ ~Has(holding, "address")
                 /\ Has(holding, "symbol")
                 /\ holding.symbol \in {SymUSDC, SymDAI}) =>
                    /\ holding.currentApy = 0
                    /\ holding.hasYieldData = FALSE

\* a plain USDC holding without address was enriched against a catalog with a USDC pool
C5_Witness ==
    /\ stage = "enriched"
    /\ \E i \in DOMAIN filtered : filtered[i].symbol = SymUSDC
    /\ \E e \in EnrichedHoldings :
           LET holding == members[e[1]].holdings[e[2]]
           IN  /\ ~Has(holding, "address")
               /\ Has(holding, "symbol") /\ holding.symbol = SymUSDC
               /\ holding.currentApy = 0

(***************************************************************************)
(* C6: every holding whose symbol is in the recognized USD-stable set,     *)
(* plain (USDC, USDT, DAI, USDbC) or yield-bearing prefixed, and whose     *)
(* balance meets the minimum, is kept by filterYieldBearingHoldings        *)
(* whether or not it matches a pool of the catalog; holdings outside that  *)
(* set are excluded.                                                       *)
(***************************************************************************)
C6_RecognizedStablesEligible ==
    stage = "enriched" =>
        \A m \in DOMAIN members : \A h \in DOMAIN members[m].holdings :
            LET holding == members[m].holdings[h]
                recognized ==
                    /\ Has(holding, "symbol")
                    /\ \/ toUpperCase(holding.symbol) \in {SymUSDC, SymUSDT, SymDAI, SymUSDBC}
                       \/ yieldBearingPattern(holding.symbol)
                kept == \E k \in DOMAIN members[m].yieldBearingHoldings :
                            members[m].yieldBearingHoldings[k] = holding
            IN  /\ (recognized /\ holding.balanceUsd >= MinBalanceUsd) => kept
                /\ ~recognized => ~kept


(***************************************************************************)
(* SpecValidateSwap: one call of validateSwap on a rotation object any of  *)
(* whose properties may be absent or out of range.                         *)
(***************************************************************************)
\* the objects with any of the given properties, each with one of its values
RECURSIVE Objects(_)
Objects(props) ==
    IF props = << >> THEN {<< >>}
    ELSE LET rest == Objects(Tail(props))
         IN  rest \cup {Spread(obj, [f \in {Head(props)[1]} |-> v]) :
                            obj \in rest, v \in Head(props)[2]}

ValidationFromTokens ==
    Objects(<< <<"symbol", {SymUSDC}>>,
               <<"balance", {0, -100, 10000}>>,
               <<"balanceUsd", {0, 999, 1000, 10000}>> >>)

ValidationToTokens == Objects(<< <<"symbol", {SymABasUSDC}>> >>)

ValidationRotations ==
    { Spread(Spread(user, from), to) :
        user \in Objects(<< <<"userAddress", {"0xAgent1"}>> >>),
        from \in {<< >>} \cup {[fromToken |-> t] : t \in ValidationFromTokens},
        to \in {<< >>} \cup {[toToken |-> t] : t \in ValidationToTokens} }

InitValidateSwap ==
    /\ stage = "call"
    /\ pools = << >>
    /\ minTvl = DefaultMinTvl
    /\ maxApy = MAX_STABLE_APY
    /\ minApyImprovement = MinApyImprovement
    /\ filtered = << >>
    /\ top = Null
    /\ members = << >>
    /\ rotations = << >>
    /\ srArgs = << >>
    /\ srResult = FALSE
    /\ dryRun = FALSE
    /\ InitDispatch
    /\ fetch = InitialFetch
    /\ validation \in {[rotation |-> r] : r \in ValidationRotations}
    /\ ranking = Null
    /\ enrichment = Null
    /\ InitCache
    /\ InitReport

ValidateSwap ==
    /\ stage = "call"
    /\ validation' = Spread(validation, [result |-> validateSwap(validation.rotation)])
    /\ stage' = "returned"
    /\ UNCHANGED <<pools, minTvl, maxApy, minApyImprovement,
                   filtered, top, members, rotations, srArgs, srResult,
                   stats, dispatchVars, fetch, ranking, enrichment, cacheVars, reportVars>>

NextValidateSwap == ValidateSwap

SpecValidateSwap == InitValidateSwap /\ [][NextValidateSwap]_vars

(***************************************************************************)
(* C11: validateSwap returns for every rotation object, with valid = FALSE *)
(* exactly when one of its five rules is violated (user address absent,    *)
(* source symbol absent, target symbol absent, source balance absent or    *)
(* not strictly positive, source balanceUsd below minBalanceUsd), with     *)
(* valid = TRUE and no error otherwise, and with one error message per     *)
(* violated rule.                                                          *)
(***************************************************************************)
C11_ValidateSwapRules ==
    stage = "returned" /\ validation # Null =>
        LET r == validation.rotation
            res == validation.result
            violated ==
                (IF "userAddress" \notin DOMAIN r THEN {"Missing user address"} ELSE {})
                \cup (IF "fromToken" \notin DOMAIN r \/ "symbol" \notin DOMAIN r.fromToken
                      THEN {"Missing source token"} ELSE {})
                \cup (IF "toToken" \notin DOMAIN r \/ "symbol" \notin DOMAIN r.toToken
                      THEN {"Missing destination token"} ELSE {})
                \cup (IF \/ "fromToken" \notin DOMAIN r
                         \/ "balance" \notin DOMAIN r.fromToken
                         \/ r.fromToken.balance <= 0
                      THEN {"Invalid swap amount"} ELSE {})
                \cup (IF /\ "fromToken" \in DOMAIN r
                         /\ "balanceUsd" \in DOMAIN r.fromToken
                         /\ r.fromToken.balanceUsd < MinBalanceUsd
                      THEN {"Balance below minimum"} ELSE {})
        IN  /\ res.valid = (violated = {})
            /\ res.valid => res.errors = << >>
            /\ {res.errors[i] : i \in DOMAIN res.errors} = violated
            /\ Len(res.errors) = Cardinality(violated)

\* a rotation that violates the five rules at once has been validated
C11_Witness ==
    /\ stage = "returned"
    /\ validation # Null
    /\ ~validation.result.valid
    /\ Len(validation.result.errors) = 5


(***************************************************************************)
(* C12: whatever the swaps answer (success, preview error, execution       *)
(* error, missing transaction id, thrown exception), executeRotations      *)
(* places every rotation it has processed in exactly one of executed and   *)
(* failed, and none in skipped: the two lists together hold the processed  *)
(* rotations, each as often as the input does, and once it has returned    *)
(* executed.length + failed.length is the number of input rotations.       *)
(***************************************************************************)
\* the number of places of the sequence that hold x
Count(seq, x) == Cardinality({i \in DOMAIN seq : seq[i] = x})

C12_EachRotationClassifiedOnce ==
    stage \in {"dispatching", "done", "exited"} =>
        LET processed == IF stage = "dispatching" THEN cursor - 1 ELSE Len(validRotations)
            input == SubSeq(validRotations, 1, processed)
            executed == [i \in DOMAIN results.executed |-> results.executed[i].rotation]
            failed == [i \in DOMAIN results.failed |-> results.failed[i].rotation]
        IN  /\ Len(executed) + Len(failed) = processed
            /\ results.skipped = << >>
            /\ \A i \in DOMAIN input :
                   Count(executed, input[i]) + Count(failed, input[i]) = Count(input, input[i])
            /\ \A i \in DOMAIN results.executed : results.executed[i].result.success
            /\ \A i \in DOMAIN results.failed : ~results.failed[i].result.success

\* executeRotations has returned with a first rotation that failed and a second
\* that was executed after it
C12_Witness ==
    /\ stage = "done"
    /\ Len(validRotations) = 2
    /\ Len(results.failed) = 1 /\ results.failed[1].rotation = validRotations[1]
    /\ Len(results.executed) = 1 /\ results.executed[1].rotation = validRotations[2]
    /\ validRotations[1] # validRotations[2]


(***************************************************************************)
(* C13: a rotation is classified executed only when its swap succeeded: no *)
(* rotation whose transaction came back from waitForTransaction with the   *)
(* terminal status FAILED is in executed (it belongs to failed, where the  *)
(* run counts it as an error).                                             *)
(***************************************************************************)
C13_FailedTransactionNotExecuted ==
    \A i \in DOMAIN results.executed :
        Has(results.executed[i].result, "status") =>
            results.executed[i].result.status # "FAILED"


(***************************************************************************)
(* C14: under the dry-run flag no dispatcher operation calls the wallet    *)
(* API's execute endpoint (nor previews or waits): every executeSwap       *)
(* returns a success result marked dryRun, so nothing is submitted and no  *)
(* rotation fails.                                                         *)
(***************************************************************************)
C14_DryRunSubmitsNothing ==
    dryRun =>
        /\ \A i \in DOMAIN apiCalls :
               apiCalls[i].op \notin {"previewSwap", "executeSwap", "waitForTransaction"}
        /\ results.failed = << >>
        /\ \A i \in DOMAIN results.executed :
               LET result == results.executed[i].result
               IN  /\ result.success
                   /\ Has(result, "dryRun") /\ result.dryRun
                   /\ ~Has(result, "transactionId")

\* a dry run has gone through executeRotations with two rotations
C14_Witness ==
    /\ dryRun
    /\ stage = "done"
    /\ Len(validRotations) = 2
    /\ Len(results.executed) = 2


(***************************************************************************)
(* C15: the process exits with code 0 exactly when runRotation returned    *)
(* with zero errors, and with a non-zero code when a dispatched swap was   *)
(* classified failed or when an exception escaped runRotation.             *)
(***************************************************************************)
C15_ExitCodeReflectsErrors ==
    [][stage # "exited" /\ stage' = "exited" =>
           /\ exitCode' = 0 <=> (stage = "done" /\ stats.errors = 0)
           /\ exitCode' \in {0, 1}
           /\ (stage = "threw" \/ results.failed # << >>) => exitCode' # 0]_vars

\* a run in which one swap failed and another was executed has exited with code 1
C15_Witness ==
    /\ stage = "exited"
    /\ exitCode = 1
    /\ Len(results.failed) = 1
    /\ Len(results.executed) = 1
    /\ stats.errors = 1


(***************************************************************************)
(* SpecFetch: getBaseYieldData from the request on: fetchYieldPools with   *)
(* its retries, where every request succeeds with some feed or fails, then *)
(* filterBaseStablecoins and getTopYieldingStable on the data returned.    *)
(***************************************************************************)
MaxRetries == 3         \* config.maxRetries
RetryDelayMs == 1000    \* config.retryDelayMs

\* faulty variant: the same delay before every retry
retryDelay_Constant(attempt) == RetryDelayMs

\* the delay of setTimeout after the failed attempt
retryDelay(attempt) == RetryDelayMs * attempt

InitFetch ==
    /\ stage = "fetching"
    /\ pools = << >>
    /\ minTvl = DefaultMinTvl
    /\ maxApy = MAX_STABLE_APY
    /\ minApyImprovement = MinApyImprovement
    /\ filtered = << >>
    /\ top = Null
    /\ dryRun = FALSE
    /\ InitRest

\* one turn of fetchYieldPools' loop: the request, and either the return of its
\* data or the catch, with the wait before the next attempt or, after the last
\* attempt, the throw
FetchYieldPools ==
    /\ stage = "fetching"
    /\ fetch.outcome = "pending"
    /\ fetch.attempt <= MaxRetries
    /\ \/ \E data \in SeqsUpTo(RawPools, MaxPools) :
              /\ fetch' = Spread([fetch EXCEPT !.requests = @ + 1, !.outcome = "returned"],
                                 [response |-> data])
              /\ pools' = data
              /\ stage' = "fetched"
       \/ /\ fetch' = [fetch EXCEPT
                          !.requests = @ + 1,
                          !.waits = IF fetch.attempt < MaxRetries
                                    THEN Append(@, retryDelay(fetch.attempt)) ELSE @,
                          !.attempt = @ + 1,
                          !.outcome = IF fetch.attempt < MaxRetries THEN "pending" ELSE "threw"]
          /\ pools' = pools
          /\ stage' = IF fetch.attempt < MaxRetries THEN "fetching" ELSE "threw"
    /\ UNCHANGED <<minTvl, maxApy, minApyImprovement,
                   filtered, top, members, rotations, srArgs, srResult,
                   stats, dispatchVars, validation, ranking, enrichment, cacheVars, reportVars>>

NextFetch == FetchYieldPools \/ FilterBaseStablecoins \/ GetTopYieldingStable

SpecFetch == InitFetch /\ [][NextFetch]_vars

C17_NoTopRecordEndsEarly ==
    top = Null =>
        /\ stage \in {"filtered", "top", "done", "exited"}
        /\ apiCalls = << >>
        /\ members = << >>
        /\ rotations = << >>
        /\ prioritized = << >>
        /\ results = EmptyResults
        /\ stats.errors = 0
        /\ stage = "exited" => exitCode = 0

C17_Witness ==
    /\ stage = "exited"
    /\ top = Null
    /\ filtered = << >>
    /\ exitCode = 0
    /\ apiCalls = << >>


(***************************************************************************)
(* C18: on every run of runRotation, the runs that end early (no top       *)
(* record, no members, no rotations), the runs with failed swaps and the   *)
(* runs that raise included, the structured run summary (accounts checked, *)
(* swaps executed, swaps skipped, errors) has been emitted when the run    *)
(* ends.                                                                   *)
(***************************************************************************)
C18_SummaryAlwaysEmitted ==
    stage \in {"done", "threw", "exited"} => logged # << >>


(***************************************************************************)
(* SpecRotator: prioritizeRotations and getRotationSummary on their own,   *)
(* applied to every list of at most MaxRotations recommendations drawn     *)
(* from those of the rotator tests (two of one user, two of equal gain).   *)
(***************************************************************************)
MaxRotations == 3

RotationSamples ==
    { [userAddress |-> "0x111", fromToken |-> [balanceUsd |-> 100000],
       estimatedAnnualGainUsd |-> 1500, apyImprovement |-> 150],
      [userAddress |-> "0x222", fromToken |-> [balanceUsd |-> 50000],
       estimatedAnnualGainUsd |-> 1250, apyImprovement |-> 250],
      [userAddress |-> "0x111", fromToken |-> [balanceUsd |-> 20000],
       estimatedAnnualGainUsd |-> 400, apyImprovement |-> 200],
      [userAddress |-> "0x333", fromToken |-> [balanceUsd |-> 30000],
       estimatedAnnualGainUsd |-> 1250, apyImprovement |-> 425] }

InitRotator ==
    /\ stage = "planned"
    /\ pools = << >>
    /\ minTvl = DefaultMinTvl
    /\ maxApy = MAX_STABLE_APY
    /\ minApyImprovement = MinApyImprovement
    /\ filtered = << >>
    /\ top = Null
    /\ dryRun = FALSE
    /\ members = << >>
    /\ rotations \in SeqsUpTo(RotationSamples, MaxRotations)
    /\ srArgs = << >>
    /\ srResult = FALSE
    /\ InitDispatch
    /\ InitCalls
    /\ InitReport

NextRotator == PrioritizeRotations

SpecRotator == InitRotator /\ [][NextRotator]_vars

(***************************************************************************)
(* C19: prioritizeRotations returns a new sequence that contains exactly   *)
(* the recommendations of its input, ordered by non-increasing             *)
(* estimatedAnnualGainUsd, and the input sequence is unchanged after the   *)
(* call.                                                                   *)
(***************************************************************************)
C19_PrioritizeSortsACopy ==
    [][(stage = "planned" /\ stage' = "prioritized") =>
           /\ rotations' = rotations
           /\ Len(prioritized') = Len(rotations)
           /\ \A i \in DOMAIN rotations :
                  Count(prioritized', rotations[i]) = Count(rotations, rotations[i])
           /\ \A i \in 1..(Len(prioritized') - 1) :
                  prioritized'[i].estimatedAnnualGainUsd
                      >= prioritized'[i + 1].estimatedAnnualGainUsd]_vars

\* the order of the tests: gains 10, 50, 25 in, 50, 25, 10 out
C19_Witness ==
    /\ stage = "prioritized"
    /\ Len(rotations) = 3
    /\ rotations[1].estimatedAnnualGainUsd < rotations[3].estimatedAnnualGainUsd
    /\ rotations[3].estimatedAnnualGainUsd < rotations[2].estimatedAnnualGainUsd
    /\ prioritized = <<rotations[2], rotations[3], rotations[1]>>

(***************************************************************************)
(* C20: getRotationSummary returns the number of recommendations, the      *)
(* number of distinct accounts, the sum of the source USD values, the sum  *)
(* of the estimated annual gains and the arithmetic mean of apyImprovement;*)
(* for the empty set every field is 0.                                     *)
(***************************************************************************)
C20_RotationSummary ==
    stage = "prioritized" =>
        /\ DOMAIN summary = {"totalRotations", "uniqueUsers", "totalValueToRotate",
                             "totalEstimatedAnnualGain", "averageApyImprovement"}
        /\ summary.totalRotations = Len(prioritized)
        /\ summary.uniqueUsers =
               Cardinality({prioritized[i].userAddress : i \in DOMAIN prioritized})
        /\ summary.totalValueToRotate =
               Sum([i \in DOMAIN prioritized |-> prioritized[i].fromToken.balanceUsd])
        /\ summary.totalEstimatedAnnualGain =
               Sum([i \in DOMAIN prioritized |-> prioritized[i].estimatedAnnualGainUsd])
        /\ IF prioritized = << >>
           THEN /\ summary.averageApyImprovement = 0
                /\ \A field \in DOMAIN summary : summary[field] = 0
           ELSE /\ summary.averageApyImprovement.den = Len(prioritized)
                /\ summary.averageApyImprovement.num =
                       Sum([i \in DOMAIN prioritized |-> prioritized[i].apyImprovement])

\* the set of the tests: three recommendations of two accounts
C20_Witness ==
    /\ stage = "prioritized"
    /\ summary.totalRotations = 3
    /\ summary.uniqueUsers = 2
    /\ summary.totalValueToRotate = 170000
    /\ summary.totalEstimatedAnnualGain = 3150
    /\ summary.averageApyImprovement = Divide(600, 3)


(***************************************************************************)
(* SpecTopStables: getTopYieldingStables on its own, applied to every feed *)
(* of at most MaxPools records, with a count from 0 to one more than the   *)
(* longest feed or with no count (the default).                            *)
(***************************************************************************)
RankingCalls == {[args |-> <<count>>] : count \in 0..(MaxPools + 1)} \cup {[args |-> << >>]}

InitTopStables ==
    /\ stage = "ranking"
    /\ pools \in SeqsUpTo(RawPools, MaxPools)
    /\ minTvl = DefaultMinTvl
    /\ maxApy = MAX_STABLE_APY
    /\ minApyImprovement = MinApyImprovement
    /\ filtered = << >>
    /\ top = Null
    /\ members = << >>
    /\ rotations = << >>
    /\ srArgs = << >>
    /\ srResult = FALSE
    /\ dryRun = FALSE
    /\ InitDispatch
    /\ fetch = InitialFetch
    /\ validation = Null
    /\ ranking \in RankingCalls
    /\ enrichment = Null
    /\ InitCache
    /\ InitReport

GetTopYieldingStables ==
    /\ stage = "ranking"
    /\ ranking' = Spread(ranking,
                         [result |-> getTopYieldingStables(
                                         pools,
                                         IF ranking.args # << >> THEN ranking.args[1]
                                         ELSE DefaultCount)])
    /\ stage' = "ranked"
    /\ UNCHANGED <<pools, minTvl, maxApy, minApyImprovement,
                   filtered, top, members, rotations, srArgs, srResult,
                   stats, dispatchVars, fetch, validation, enrichment, cacheVars, reportVars>>

NextTopStables == GetTopYieldingStables

SpecTopStables == InitTopStables /\ [][NextTopStables]_vars

(***************************************************************************)
(* C21: for every pool list and count, getTopYieldingStables returns at    *)
(* most count records, all taken from the input, ordered so that every     *)
(* record's apy is >= the apy of the record after it.                      *)
(***************************************************************************)
C21_TopStablesRanked ==
    stage = "ranked" =>
        LET count == IF ranking.args # << >> THEN ranking.args[1] ELSE DefaultCount
            result == ranking.result
            FromPool(record, pool) ==
                /\ Has(pool, "pool") /\ record.pool = pool.pool
                /\ record.apy = NumOr0(pool, "apy")
                /\ \A field \in {"symbol", "project", "tvlUsd"} :
                       /\ Has(record, field) <=> Has(pool, field)
                       /\ Has(pool, field) => record[field] = pool[field]
        IN  /\ Len(result) <= count
            /\ Len(result) <= Len(pools)
            /\ \A i \in DOMAIN result :
                   Count(result, result[i])
                       <= Cardinality({j \in DOMAIN pools : FromPool(result[i], pools[j])})
            /\ \A i \in 1..(Len(result) - 1) : result[i].apy >= result[i + 1].apy

\* the lower pool comes first in the feed, the higher one alone is returned
C21_Witness ==
    /\ stage = "ranked"
    /\ ranking.args = <<1>>
    /\ Len(pools) = 2
    /\ Len(ranking.result) = 1
    /\ NumOr0(pools[1], "apy") < NumOr0(pools[2], "apy")
    /\ ranking.result[1].pool = pools[2].pool


(***************************************************************************)
(* C22: executeRotations submits swaps strictly one at a time in the order *)
(* of its input list, the priority order of prioritizeRotations: every     *)
(* wallet API call of the dispatch is for the rotation the loop is at, and *)
(* is made when each rotation before it, and no other, has its result.     *)
(***************************************************************************)
C22_OneSwapAtATime ==
    [][(stage = "dispatching" /\ apiCalls' # apiCalls) =>
           LET call == apiCalls'[Len(apiCalls')]
               before == [i \in DOMAIN results.executed |-> results.executed[i].rotation]
                             \o [i \in DOMAIN results.failed |-> results.failed[i].rotation]
           IN  /\ apiCalls' = Append(apiCalls, call)
               /\ call.rotation = cursor
               /\ Len(before) = cursor - 1
               /\ \A i \in 1..(cursor - 1) : Count(before, validRotations[i]) >= 1
               /\ \A i \in DOMAIN apiCalls :
                      Has(apiCalls[i], "rotation") => apiCalls[i].rotation <= call.rotation
               /\ \A i \in 1..(cursor - 1) :
                      validRotations[i].estimatedAnnualGainUsd
                          >= validRotations[cursor].estimatedAnnualGainUsd]_vars

\* the second swap is previewed after the first one went through its three calls,
\* and the planner's order was not the priority order
C22_Witness ==
    /\ stage = "dispatching"
    /\ Len(apiCalls) = 5
    /\ apiCalls[4].op = "waitForTransaction" /\ apiCalls[4].rotation = 1
    /\ apiCalls[5].op = "previewSwap" /\ apiCalls[5].rotation = 2
    /\ validRotations[1].estimatedAnnualGainUsd > validRotations[2].estimatedAnnualGainUsd
    /\ rotations # prioritized


(***************************************************************************)
(* C23: within a live executeSwap the wallet API calls follow the order    *)
(* preview, execute, wait: the execute endpoint is called only right after *)
(* a preview of the same parameters came back with no errors, the wait     *)
(* only right after the execute call returned a transaction id, for that   *)
(* id, and a preview that reports errors gives a failure result with no    *)
(* execute call.                                                           *)
(***************************************************************************)
C23_PreviewExecuteWait ==
    \A k \in DOMAIN apiCalls :
        LET call == apiCalls[k]
        IN  /\ call.op = "executeSwap" =>
                /\ k > 1
                /\ apiCalls[k - 1].op = "previewSwap"
                /\ apiCalls[k - 1].rotation = call.rotation
                /\ apiCalls[k - 1].params = call.params
                /\ apiCalls[k - 1].answer = "clean"
            /\ call.op = "waitForTransaction" =>
                /\ k > 1
                /\ apiCalls[k - 1].op = "executeSwap"
                /\ apiCalls[k - 1].rotation = call.rotation
                /\ apiCalls[k - 1].answer = "submitted"
                /\ call.transactionId = TransactionId(call.rotation)
            /\ (call.op = "previewSwap" /\ call.answer = "errors") =>
                /\ \A j \in DOMAIN apiCalls :
                       ~(apiCalls[j].op = "executeSwap" /\ apiCalls[j].rotation = call.rotation)
                /\ \E i \in DOMAIN results.failed :
                       /\ results.failed[i].rotation = validRotations[call.rotation]
                       /\ results.failed[i].result.success = FALSE
                /\ Len(results.executed) + Len(results.failed) >= call.rotation

\* one swap through its three calls, then a preview with errors
C23_Witness ==
    /\ stage = "done"
    /\ Len(apiCalls) = 5
    /\ apiCalls[2].op = "previewSwap" /\ apiCalls[2].answer = "clean"
    /\ apiCalls[3].op = "executeSwap" /\ apiCalls[3].answer = "submitted"
    /\ apiCalls[4].op = "waitForTransaction" /\ apiCalls[4].answer = "CONFIRMED"
    /\ apiCalls[5].op = "previewSwap" /\ apiCalls[5].answer = "errors"
    /\ Len(results.executed) = 1
    /\ Len(results.failed) = 1


(***************************************************************************)
(* C24: a recommendation that fails validateSwap is never passed to        *)
(* executeRotations (no preview or execute call is made for it, it gets no *)
(* result), adds exactly one to the skipped count, and does not abort the  *)
(* run: the valid recommendations are all dispatched.                      *)
(***************************************************************************)
C24_InvalidRotationSkipped ==
    stage \in {"dispatching", "done", "exited"} /\ prioritized # << >> =>
        LET invalid == {i \in DOMAIN prioritized : ~validateSwap(prioritized[i]).valid}
            isInvalid(rotation) == \E i \in invalid : prioritized[i] = rotation
        IN  /\ \A i \in DOMAIN validRotations : ~isInvalid(validRotations[i])
            /\ \A k \in DOMAIN apiCalls :
                   Has(apiCalls[k], "rotation") =>
                       ~isInvalid(validRotations[apiCalls[k].rotation])
            /\ \A i \in DOMAIN results.executed : ~isInvalid(results.executed[i].rotation)
            /\ \A i \in DOMAIN results.failed : ~isInvalid(results.failed[i].rotation)
            /\ stats.swapsSkipped = Cardinality(invalid)
            /\ Len(validRotations) = Len(prioritized) - Cardinality(invalid)
            /\ \A i \in DOMAIN prioritized \ invalid :
                   Count(validRotations, prioritized[i]) = Count(prioritized, prioritized[i])
            /\ stage \in {"done", "exited"} =>
                   Len(results.executed) + Len(results.failed) = Len(validRotations)

\* a live run with one invalid and one valid recommendation: one skipped, the
\* other one previewed, executed and waited for
C24_Witness ==
    /\ stage = "done"
    /\ ~dryRun
    /\ Len(prioritized) = 2
    /\ Len(validRotations) = 1
    /\ stats.swapsSkipped = 1
    /\ stats.swapsExecuted = 1
    /\ Len(apiCalls) = 4


(***************************************************************************)
(* SpecHoldingApy: getCurrentHoldingApy on its own.  The catalog is any    *)
(* list of at most MaxPools pools, those with missing fields of the edge   *)
(* case tests included; the holdings are any list of at most MaxHoldings   *)
(* holdings, or null (the call record without userHoldings).               *)
(***************************************************************************)
SymXYZ == <<"X","Y","Z">>

MatcherPools ==
    CatalogPools \cup { [pool |-> "test", chain |-> "Base", stablecoin |-> TRUE],
                        [pool |-> "test2"] }

MatcherHoldings ==
    Holdings \cup { [symbol |-> SymXYZ, balance |-> 100, balanceUsd |-> 10000] }

EnrichmentCalls ==
    {[userHoldings |-> holdings] : holdings \in SeqsUpTo(MatcherHoldings, MaxHoldings)}
        \cup {[nullHoldings |-> TRUE]}

InitHoldingApy ==
    /\ stage = "matching"
    /\ pools \in SeqsUpTo(MatcherPools, MaxPools)
    /\ minTvl = DefaultMinTvl
    /\ maxApy = MAX_STABLE_APY
    /\ minApyImprovement = MinApyImprovement
    /\ filtered = << >>
    /\ top = Null
    /\ members = << >>
    /\ rotations = << >>
    /\ srArgs = << >>
    /\ srResult = FALSE
    /\ dryRun = FALSE
    /\ InitDispatch
    /\ fetch = InitialFetch
    /\ validation = Null
    /\ ranking = Null
    /\ enrichment \in EnrichmentCalls
    /\ InitCache
    /\ InitReport

\* getCurrentHoldingApy(userHoldings, yieldPools): [] for null holdings
GetCurrentHoldingApy ==
    /\ stage = "matching"
    /\ enrichment' = Spread(enrichment,
                            [result |-> IF ~Has(enrichment, "userHoldings") THEN << >>
                                        ELSE getCurrentHoldingApy(enrichment.userHoldings,
                                                                  pools)])
    /\ stage' = "matched"
    /\ UNCHANGED <<pools, minTvl, maxApy, minApyImprovement,
                   filtered, top, members, rotations, srArgs, srResult,
                   stats, dispatchVars, fetch, validation, ranking, cacheVars, reportVars>>

NextHoldingApy == GetCurrentHoldingApy

SpecHoldingApy == InitHoldingApy /\ [][NextHoldingApy]_vars

(***************************************************************************)
(* C25: getCurrentHoldingApy returns one enriched record per input         *)
(* holding, in input order, with the holding's own fields preserved, and   *)
(* with currentApy = 0 and hasYieldData = false for every holding without  *)
(* a match (unknown symbol, missing symbol, empty catalog, pools with      *)
(* missing fields); null or empty holdings give an empty list.             *)
(***************************************************************************)
C25_UnmatchedHoldingIsNoMatch ==
    stage = "matched" =>
        LET input == IF Has(enrichment, "userHoldings") THEN enrichment.userHoldings ELSE << >>
            result == enrichment.result
            SameAddress(holding, pool) ==
                /\ Has(holding, "address")
                /\ getTokenAddressForPool(pool) # NoAddress
                /\ toLowerCase(getTokenAddressForPool(pool)) = toLowerCase(holding.address)
            SameSymbol(holding, pool) ==
                /\ Has(holding, "symbol") /\ Has(pool, "symbol")
                /\ toLowerCase(pool.symbol) = toLowerCase(holding.symbol)
            Unmatched(holding) ==
                \A j \in DOMAIN pools :
                    ~SameAddress(holding, pools[j]) /\ ~SameSymbol(holding, pools[j])
        IN  /\ Len(result) = Len(input)
            /\ \A i \in DOMAIN input :
                   /\ DOMAIN result[i] = DOMAIN input[i] \cup
                          {"currentApy", "pool", "hasYieldData", "matchedProject"}
                   /\ \A field \in DOMAIN input[i] : result[i][field] = input[i][field]
                   /\ Unmatched(input[i]) =>
                          result[i].currentApy = 0 /\ result[i].hasYieldData = FALSE
                   /\ ~result[i].hasYieldData =>
                          /\ result[i].currentApy = 0
                          /\ result[i].pool = Null
                          /\ result[i].matchedProject = NullStr

\* a holding with a match after a holding of unknown symbol, against a catalog
\* that holds a pool without fields
C25_Witness ==
    /\ stage = "matched"
    /\ Len(enrichment.result) = 2
    /\ Has(enrichment.userHoldings[1], "symbol")
    /\ enrichment.userHoldings[1].symbol = SymXYZ
    /\ ~enrichment.result[1].hasYieldData
    /\ enrichment.result[2].hasYieldData
    /\ Len(pools) = 2
    /\ pools[1] = [pool |-> "test2"]


(***************************************************************************)
(* SpecPlanner: the run from the catalog to the rotations, with the        *)
(* improvement threshold at its default or configured lower than the 0.1   *)
(* of the best-pool test, over a catalog in which several pools of one     *)
(* project resolve to the same token address.                              *)
(***************************************************************************)
PlannerThresholds == {MinApyImprovement, 5}      \* 0.5 % and 0.05 %

PlannerPools ==
    { FeedPool("aave-base-usdc", "Base", SymUSDC, "aave-v3", 550, 1000000000, TRUE),
      FeedPool("aave-base-usdc-2", "Base", SymUSDC, "aave-v3", 555, 100000000, TRUE),
      FeedPool("aave-base-usdc-3", "Base", SymUSDC, "aave-v3", 650, 200000000, TRUE),
      FeedPool("moonwell-base-usdc", "Base", SymUSDC, "moonwell-lending", 600, 750000000, TRUE) }

PlannerHoldings ==
    { [symbol |-> SymABasUSDC, address |-> AddrABasUSDC, balance |-> 10000,
       balanceUsd |-> 10000],
      [symbol |-> SymUSDC, balance |-> 10000, balanceUsd |-> 10000],
      [symbol |-> SymMUSDC, address |-> toLowerCase(AddrMUSDC), balance |-> 20000,
       balanceUsd |-> 20000] }

InitPlanner ==
    /\ stage = "filtered"
    /\ pools = << >>
    /\ minTvl = DefaultMinTvl
    /\ maxApy = MAX_STABLE_APY
    /\ minApyImprovement \in PlannerThresholds
    /\ filtered \in SeqsUpTo(PlannerPools, MaxPools)
    /\ top = Null
    /\ dryRun = FALSE
    /\ InitRest

GetEnrichedMemberDataPlanner == EnrichMembers(MemberLists(PlannerHoldings, MaxHoldings))

NextPlanner ==
    \/ GetTopYieldingStable
    \/ NoTopYielding
    \/ GetEnrichedMemberDataPlanner
    \/ NoMembers
    \/ CalculateRotations

SpecPlanner == InitPlanner /\ [][NextPlanner]_vars

(***************************************************************************)
(* C26: calculateRotations emits no rotation for a holding that is already *)
(* effectively the target, that is whose matched project equals the top    *)
(* record's project and whose currentApy differs from the top record's apy *)
(* by less than 0.1, whatever the configured improvement threshold is.     *)
(***************************************************************************)
C26_HoldingInBestPoolNotRotated ==
    stage = "planned" =>
        \A u \in DOMAIN members :
            \A h \in DOMAIN members[u].yieldBearingHoldings :
                LET holding == members[u].yieldBearingHoldings[h]
                    distance == NumOr0(holding, "currentApy") - top.apy
                IN  (/\ holding.matchedProject = top.project
                     /\ distance < 10
                     /\ 0 - distance < 10)
                    => \A i \in DOMAIN rotations :
                           ~(/\ rotations[i].userAddress = members[u].address
                             /\ rotations[i].fromToken = FromToken(holding))

\* threshold 0.05 %: a holding 0.05 % under the top record of its own project is
\* left alone while another holding of the member is rotated
C26_Witness ==
    /\ stage = "planned"
    /\ minApyImprovement = 5
    /\ Len(rotations) = 1
    /\ Len(members) = 1
    /\ Len(members[1].yieldBearingHoldings) = 2
    /\ \E h \in DOMAIN members[1].yieldBearingHoldings :
           /\ members[1].yieldBearingHoldings[h].matchedProject = top.project
           /\ top.apy - members[1].yieldBearingHoldings[h].currentApy = 5


(***************************************************************************)
(* C27: no rotation swaps a token into itself: calculateRotations never    *)
(* emits a rotation whose source token address equals its target token     *)
(* address, also when several catalog pools resolve to the same address.   *)
(***************************************************************************)
C27_NoSwapIntoItself ==
    \A i \in DOMAIN rotations :
        (/\ Has(rotations[i].fromToken, "address")
         /\ rotations[i].toToken.address # NoAddress)
        => toLowerCase(rotations[i].fromToken.address)
               # toLowerCase(rotations[i].toToken.address)


(***************************************************************************)
(* C28: every swap that executeRotations submits to the wallet API is      *)
(* restricted to the single member the rotation belongs to: membershipIds  *)
(* is exactly the id of the member who has the rotation's address and      *)
(* holds its source token.                                                 *)
(***************************************************************************)
C28_SwapTargetsOneMember ==
    \A k \in DOMAIN apiCalls :
        apiCalls[k].op \in {"previewSwap", "executeSwap"} =>
            LET rotation == validRotations[apiCalls[k].rotation]
                params == apiCalls[k].params
            IN  /\ Has(params, "membershipIds")
                /\ Len(params.membershipIds) = 1
                /\ \E u \in DOMAIN members :
                       /\ members[u].membershipId = params.membershipIds[1]
                       /\ members[u].address = rotation.userAddress
                       /\ \E h \in DOMAIN members[u].yieldBearingHoldings :
                              FromToken(members[u].yieldBearingHoldings[h]) = rotation.fromToken
                /\ \A u \in DOMAIN members :
                       members[u].address # rotation.userAddress
                           => members[u].membershipId # params.membershipIds[1]

\* two members, one rotation each, each swap submitted for its own member
C28_Witness ==
    /\ stage = "done"
    /\ Len(members) = 2
    /\ Len(results.executed) = 2
    /\ \E j, k \in DOMAIN apiCalls :
           /\ apiCalls[j].op = "executeSwap"
           /\ apiCalls[k].op = "executeSwap"
           /\ apiCalls[j].params.membershipIds = <<members[1].membershipId>>
           /\ apiCalls[k].params.membershipIds = <<members[2].membershipId>>


(***************************************************************************)
(* C29: on every run of runRotation that reaches the dispatch and returns, *)
(* the final statistics account for every recommendation exactly once:     *)
(* swapsExecuted + swapsSkipped + errors is the number of prioritized      *)
(* recommendations, and usersChecked is the number of members the holdings *)
(* query returned.                                                         *)
(***************************************************************************)
C29_StatsAccountForEveryRotation ==
    (stage \in {"done", "exited"} /\ logged # << >>) =>
        /\ stats.swapsExecuted + stats.swapsSkipped + stats.errors = Len(prioritized)
        /\ stats.swapsExecuted = Len(results.executed)
        /\ stats.errors = Len(results.failed)
        /\ apiCalls[1].op = "getSwarmHoldings"
        /\ stats.usersChecked = apiCalls[1].members

\* two members; of two recommendations one is skipped and one has failed
C29_Witness ==
    /\ stage = "done"
    /\ stats = [usersChecked |-> 2, swapsExecuted |-> 0, swapsSkipped |-> 1, errors |-> 1]
    /\ Len(prioritized) = 2


(***************************************************************************)
(* SpecSwappable: a sequence of at most MaxCalls calls of isTokenSwappable *)
(* with a configured swarm id, each returned before the next is made (as   *)
(* in filterSwappablePools).  A call is made with one of the addresses, in *)
(* either case, or with none; a preview comes back with a positive buy     *)
(* amount, with a zero amount, with errors, or throws.                     *)
(***************************************************************************)
MaxCalls == 3

SwappableAddresses == {AddrABasUSDC, toLowerCase(AddrABasUSDC), AddrMUSDC}

\* faulty variant: the address as given is the key
cacheKey_CaseSensitive(tokenAddress) == tokenAddress

\* const cacheKey = tokenAddress.toLowerCase()
cacheKey(tokenAddress) == toLowerCase(tokenAddress)

InitSwappable ==
    /\ stage = "idle"
    /\ pools = << >>
    /\ minTvl = DefaultMinTvl
    /\ maxApy = MAX_STABLE_APY
    /\ minApyImprovement = MinApyImprovement
    /\ filtered = << >>
    /\ top = Null
    /\ dryRun = FALSE
    /\ InitRest

\* isTokenSwappable(undefined): false, no request
IsTokenSwappableNoAddress ==
    /\ stage = "idle"
    /\ Len(swappableCalls) < MaxCalls
    /\ swappableCalls' = Append(swappableCalls, [requested |-> FALSE, answer |-> FALSE])
    /\ UNCHANGED <<stage, planVars, stats, dispatchVars, fetch, validation, ranking,
                   enrichment, swapValidationCache, reportVars>>

\* isTokenSwappable(tokenAddress) up to its await: the cached answer, or the
\* preview request
IsTokenSwappable ==
    /\ stage = "idle"
    /\ Len(swappableCalls) < MaxCalls
    /\ \E tokenAddress \in SwappableAddresses :
           IF cacheKey(tokenAddress) \in DOMAIN swapValidationCache
           THEN /\ swappableCalls' =
                       Append(swappableCalls,
                              [tokenAddress |-> tokenAddress, requested |-> FALSE,
                               answer |-> swapValidationCache[cacheKey(tokenAddress)]])
                /\ stage' = "idle"
           ELSE /\ swappableCalls' =
                       Append(swappableCalls,
                              [tokenAddress |-> tokenAddress, requested |-> TRUE])
                /\ stage' = "previewing"
    /\ UNCHANGED <<planVars, stats, dispatchVars, fetch, validation, ranking,
                   enrichment, swapValidationCache, reportVars>>

\* isTokenSwappable after its await: the answer is computed from the preview, or
\* is false in the catch, and is written to the cache under the key
PreviewReturns ==
    /\ stage = "previewing"
    /\ \E preview \in {"amount", "zero", "errors", "throws"} :
           LET call == swappableCalls[Len(swappableCalls)]
               isSwappable == preview = "amount"
           IN  /\ swapValidationCache' =
                       (cacheKey(call.tokenAddress) :> isSwappable) @@ swapValidationCache
               /\ swappableCalls' =
                       [swappableCalls EXCEPT ![Len(swappableCalls)] =
                            Spread(call, [answer |-> isSwappable, preview |-> preview])]
    /\ stage' = "idle"
    /\ UNCHANGED <<planVars, stats, dispatchVars, fetch, validation, ranking,
                   enrichment, reportVars>>

NextSwappable == IsTokenSwappableNoAddress \/ IsTokenSwappable \/ PreviewReturns

SpecSwappable == InitSwappable /\ [][NextSwappable]_vars

(***************************************************************************)
(* C30: for any sequence of isTokenSwappable calls made with a configured  *)
(* swarm id, at most one preview request is issued per distinct token      *)
(* address, addresses compared without regard to case, and every later     *)
(* call for that address returns the answer of the first one, a false      *)
(* recorded after a preview error included; a call with no address returns *)
(* false without any request.                                              *)
(***************************************************************************)
C30_OnePreviewPerAddress ==
    /\ \A i \in DOMAIN swappableCalls :
           ~Has(swappableCalls[i], "tokenAddress") =>
               ~swappableCalls[i].requested /\ swappableCalls[i].answer = FALSE
    /\ \A i, j \in DOMAIN swappableCalls :
           (/\ i < j
            /\ Has(swappableCalls[i], "tokenAddress")
            /\ Has(swappableCalls[j], "tokenAddress")
            /\ toLowerCase(swappableCalls[i].tokenAddress)
                   = toLowerCase(swappableCalls[j].tokenAddress))
           => /\ ~swappableCalls[j].requested
              /\ swappableCalls[j].answer = swappableCalls[i].answer

\* a preview that threw, then the same address in the other case: false from the
\* cache, no second request
C30_Witness ==
    /\ Len(swappableCalls) = 2
    /\ stage = "idle"
    /\ Has(swappableCalls[1], "tokenAddress")
    /\ swappableCalls[1].tokenAddress = AddrABasUSDC
    /\ swappableCalls[1].requested
    /\ swappableCalls[1].preview = "throws"
    /\ Has(swappableCalls[2], "tokenAddress")
    /\ swappableCalls[2].tokenAddress = toLowerCase(AddrABasUSDC)
    /\ ~swappableCalls[2].requested
    /\ swappableCalls[2].answer = FALSE

=============================================================================
